---- MODULE Spec2Model ----
(***************************************************************************)
(* A model of the MSVC symbol demangler (class Demangler): the cursor over *)
(* the mangled symbol, the arena-allocated AST of Type and Name nodes, the *)
(* two back-reference tables, the recursive-descent parser parse() and the *)
(* two-pass writer str().                                                  *)
(*                                                                         *)
(* Bytes are one-character strings; a String (the non-owning slice of the  *)
(* source) is the sequence of its bytes.  Pointers into the arena are      *)
(* indexes into the node heaps `types' and `names'; 0 is nullptr.  The     *)
(* member Demangler::type is the node types[1].                            *)
(*                                                                         *)
(* The parser is written in state-passing style: every read_* operator     *)
(* takes the Demangler record d and gives the Demangler record after the   *)
(* call, with the call's return value in d.ret.                            *)
(***************************************************************************)
EXTENDS Integers, Sequences, FiniteSets, TLC

(***************************************************************************)
(* Bounds of the model.                                                    *)
(***************************************************************************)
\* Nodes the arena hands out before a run of parse() is cut off.
ArenaCap == 30
\* Calls of str() on one Demangler.
MaxStrCalls == 2

(***************************************************************************)
(* Bytes.                                                                  *)
(***************************************************************************)
Digits == <<"0", "1", "2", "3", "4", "5", "6", "7", "8", "9">>
HexLetters == <<"A", "B", "C", "D", "E", "F", "G", "H",
                "I", "J", "K", "L", "M", "N", "O", "P">>
UpperLetters == {"A", "B", "C", "D", "E", "F", "G", "H", "I", "J", "K", "L", "M",
                 "N", "O", "P", "Q", "R", "S", "T", "U", "V", "W", "X", "Y", "Z"}
LowerLetters == {"a", "b", "c", "d", "e", "f", "g", "h", "i", "j", "k", "l", "m",
                 "n", "o", "p", "q", "r", "s", "t", "u", "v", "w", "x", "y", "z"}

IsDigit(c) == \E i \in 1..10 : Digits[i] = c
\* c - '0'
DigitVal(c) == (CHOOSE i \in 1..10 : Digits[i] = c) - 1
\* 'A' <= c && c <= 'P'
IsHexLetter(c) == \E i \in 1..16 : HexLetters[i] = c
\* c - 'A'
HexVal(c) == (CHOOSE i \in 1..16 : HexLetters[i] = c) - 1
isalpha(c) == c \in UpperLetters \cup LowerLetters

\* The decimal digits of n >= 0.
RECURSIVE DecDigits(_)
DecDigits(n) ==
  IF n < 10 THEN <<Digits[n + 1]>>
  ELSE DecDigits(n \div 10) \o <<Digits[(n % 10) + 1]>>
\* std::to_string(int)
to_string(n) == IF n < 0 THEN <<"-">> \o DecDigits(0 - n) ELSE DecDigits(n)
\* operator<<(uint32_t) of the int n: a negative n is printed as 2^32 + n,
\* computed in two halves of five decimal digits (2^32 = 42949 67296).
Pad5(n) ==
  LET ds == DecDigits(n)
  IN [i \in 1..(5 - Len(ds)) |-> "0"] \o ds
u32_to_string(n) ==
  IF n >= 0 THEN DecDigits(n)
  ELSE LET m == 0 - n
           mh == m \div 100000
           ml == m % 100000
           borrow == IF ml > 67296 THEN 1 ELSE 0
       IN DecDigits((42949 - mh) - borrow)
            \o Pad5((67296 - ml) + (borrow * 100000))

(***************************************************************************)
(* Storage classes, as sets of bits.                                       *)
(***************************************************************************)
Const == "Const"
Volatile == "Volatile"
Far == "Far"

(***************************************************************************)
(* AST nodes.  prim, calling_conv, func_class and len have no default      *)
(* member initializer: a node made by `new (arena) Type' holds the         *)
(* indeterminate value Uninit there until the parser assigns it (len is    *)
(* assigned by read_array together with prim = Array, the only variant     *)
(* under which it is read, so its indeterminate value is written 0).       *)
(***************************************************************************)
Uninit == "Uninit"
NullPtr == 0

NewType == [prim |-> Uninit, ptr |-> NullPtr, sclass |-> {},
            calling_conv |-> Uninit, func_class |-> {Uninit}, len |-> 0,
            name |-> NullPtr, params |-> NullPtr, next |-> NullPtr]

NewName == [str |-> <<>>, params |-> NullPtr, next |-> NullPtr]

\* std::string error: the fixed text msg, and the bytes spliced around it
\* (lit before it, rest after it).  error.empty() is msg = "".
NoError == [msg |-> "", lit |-> <<>>, rest |-> <<>>]
Err(m, l, r) == [msg |-> m, lit |-> l, rest |-> r]

(***************************************************************************)
(* class Arena.  A page is named by its number: 0 is init_buf, k > 0 is    *)
(* the k-th page got from `new uint8_t[unit]' (buf2 owns them all until    *)
(* the Arena dies, so each is fresh memory).  An address is a page and an  *)
(* offset into it.                                                         *)
(***************************************************************************)
\* Arena::unit
Unit == 4096
\* sizeof(Type) and sizeof(Name), where pointers and size_t have 8 bytes
SizeofType == 48
SizeofName == 32

\* The Arena after construction: buf = init_buf, nused = 0, buf2 empty
\* (buf2 is the number of pages it owns).
NewArena == [buf |-> 0, nused |-> 0, buf2 |-> 0]

\* Arena::alloc(size): the Arena after the call, and the address returned.
ArenaAlloc(a, size) ==
  IF a.nused + size < Unit
  THEN [arena |-> [a EXCEPT !.nused = @ + size],
        p |-> [page |-> a.buf, off |-> a.nused, size |-> size]]
  ELSE [arena |-> [buf |-> a.buf2 + 1, nused |-> 0, buf2 |-> a.buf2 + 1],
        p |-> [page |-> a.buf2 + 1, off |-> 0, size |-> size]]

(***************************************************************************)
(* The Demangler after construction on the symbol s (Demangler(String s)). *)
(* ub is the outcome this build gives to a store through a null pointer.   *)
(***************************************************************************)
Demangler(s, ub) ==
  [src |-> s, pos |-> 0, error |-> NoError,
   types |-> <<NewType>>, names |-> <<>>, symbol |-> NullPtr,
   repeated_names |-> <<>>, crash |-> "", ub |-> ub,
   arena |-> NewArena, allocs |-> <<>>,
   log |-> <<>>, ret |-> 0]

Halted(d) == d.crash # ""
\* `x = v; F(x)': the statements of F run on the value v, once v is computed.
Bind(v, F(_)) == IF v = v THEN F(v) ELSE F(v)
Ret(d, v) == [d EXCEPT !.ret = v]
\* The log gets the event e (no statement runs after a halt).
Note(d, e) == IF Halted(d) THEN d ELSE [d EXCEPT !.log = Append(@, e)]
\* Nodes handed out by the arena so far (Demangler::type is not one of them).
ArenaUsed(d) == (Len(d.types) - 1) + Len(d.names)
\* The log gets an assignment of the text m to error: where the cursor is,
\* how many nodes the arena has handed out, and whether error was empty.
Failed(d, m) ==
  Note(d, [op |-> "error", idx |-> d.pos, size |-> ArenaUsed(d),
           val |-> <<m, d.error.msg>>])

(***************************************************************************)
(* class String: the cursor `input' is the suffix of src after pos.        *)
(***************************************************************************)
InputLen(d) == Len(d.src) - d.pos
\* input.p[i]
InputAt(d, i) == d.src[d.pos + i + 1]
\* input.str()
InputStr(d) == SubSeq(d.src, d.pos + 1, Len(d.src))
\* input.substr(0, i)
substr(d, i) == SubSeq(d.src, d.pos + 1, d.pos + i)
empty(d) == InputLen(d) = 0
startswith(d, lit) ==
  /\ Len(lit) <= InputLen(d)
  /\ SubSeq(d.src, d.pos + 1, d.pos + Len(lit)) = lit
startswith_digit(d) == 0 < InputLen(d) /\ IsDigit(InputAt(d, 0))

\* String::trim(n); the assert is recorded, not enforced (NDEBUG or not, the
\* parser only ever reaches it with what the log then shows).
trim(d, n) ==
  IF Halted(d) THEN d
  ELSE [Note(d, [op |-> "trim", idx |-> n, size |-> InputLen(d),
                 val |-> <<>>])
          EXCEPT !.pos = @ + n]

\* String::get() stepping the cursor even when nothing is left to read.
get_advancing(d) ==
  IF Halted(d) THEN d
  ELSE IF InputLen(d) <= 0 THEN [d EXCEPT !.pos = @ + 1, !.ret = "EOF"]
  ELSE [d EXCEPT !.pos = @ + 1, !.ret = InputAt(d, 0)]

\* String::get(): the byte, or "EOF" for -1.
get(d) ==
  IF Halted(d) THEN d
  ELSE IF InputLen(d) = 0 THEN Ret(d, "EOF")
  ELSE [d EXCEPT !.pos = @ + 1, !.ret = InputAt(d, 0)]

\* String::unget(c); the log gets where the cursor was (size) and c (val).
unget(d, c) ==
  IF Halted(d) \/ c = "EOF" THEN d
  ELSE [Note(d, [op |-> "unget", idx |-> 1, size |-> d.pos, val |-> <<c>>])
          EXCEPT !.pos = @ - 1]

\* consume, emptying the error string whenever it consumes the literal.
consume_clearing(d, lit) ==
  IF Halted(d) THEN Ret(d, FALSE)
  ELSE IF ~startswith(d, lit) THEN Ret(d, FALSE)
  ELSE Ret([trim(d, Len(lit)) EXCEPT !.error = NoError], TRUE)

\* Demangler::consume: d.ret tells whether the literal was consumed.
consume(d, lit) ==
  IF Halted(d) THEN Ret(d, FALSE)
  ELSE IF ~startswith(d, lit) THEN Ret(d, FALSE)
  ELSE Ret(trim(d, Len(lit)), TRUE)

\* expect without the assignment to error.
expect_lenient(d, lit) ==
  IF Halted(d) \/ startswith(d, lit) THEN consume(d, lit)
  ELSE Ret(d, FALSE)

\* Demangler::expect
expect(d, lit) ==
  IF Halted(d) \/ startswith(d, lit) THEN consume(d, lit)
  ELSE [Failed(d, " expected, but got ")
          EXCEPT !.error = Err(" expected, but got ", lit, InputStr(d)),
                 !.ret = FALSE]

\* error = m + r
SetError(d, m, r) ==
  IF Halted(d) THEN d ELSE [Failed(d, m) EXCEPT !.error = Err(m, <<>>, r)]

(***************************************************************************)
(* operator new(size, arena), seen from the parser: `new (arena) T' calls   *)
(* Arena::alloc(sizeof(T)) and gives a node at the address returned; the   *)
(* addresses are kept in allocs, in order.  A run that asks for more than  *)
(* ArenaCap nodes is cut off (crash = "arena"): every statement after that *)
(* point is skipped.  ArenaCap nodes fit in init_buf, where each address   *)
(* is fresh, and so each node is a new element of types or names.          *)
(***************************************************************************)
\* a.alloc(size) on the Arena of d
Allocated(d, size) ==
  [d EXCEPT !.arena = ArenaAlloc(d.arena, size).arena,
            !.allocs = Append(@, ArenaAlloc(d.arena, size).p)]

\* new (arena) Type / new (arena) Type(init): d.ret is the address.
alloc_type(d, init) ==
  IF Halted(d) THEN d
  ELSE IF ArenaUsed(d) >= ArenaCap THEN [d EXCEPT !.crash = "arena"]
  ELSE [Allocated(d, SizeofType)
          EXCEPT !.types = Append(@, init), !.ret = Len(d.types) + 1]

\* new (arena) Name
alloc_name(d) ==
  IF Halted(d) THEN d
  ELSE IF ArenaUsed(d) >= ArenaCap THEN [d EXCEPT !.crash = "arena"]
  ELSE [Allocated(d, SizeofName)
          EXCEPT !.names = Append(@, NewName), !.ret = Len(d.names) + 1]

\* ty.field = v, for the Type at address ty
SetT(d, ty, field, v) ==
  IF Halted(d) THEN d ELSE [d EXCEPT !.types[ty][field] = v]
\* name->field = v
SetN(d, nm, field, v) ==
  IF Halted(d) THEN d ELSE [d EXCEPT !.names[nm][field] = v]

(***************************************************************************)
(* Numbers and identifiers.                                                *)
(***************************************************************************)
\* The for loop of read_number from index i with the value ret so far:
\* the index of the '@' that ends the run of hex letters, or -1.
RECURSIVE hex_run(_, _, _)
hex_run(d, i, ret) ==
  IF i >= InputLen(d) THEN [at |-> -1, ret |-> ret]
  ELSE IF InputAt(d, i) = "@" THEN [at |-> i, ret |-> ret]
  ELSE IF IsHexLetter(InputAt(d, i))
    THEN hex_run(d, i + 1, (ret * 16) + HexVal(InputAt(d, i)))
  ELSE [at |-> -1, ret |-> ret]

\* read_number after its consume("?"), which told neg.
read_number_after(d, neg) ==
  IF startswith_digit(d)
  THEN Ret(trim(d, 1), IF neg THEN 0 - (DigitVal(InputAt(d, 0)) + 1)
                       ELSE DigitVal(InputAt(d, 0)) + 1)
  ELSE Bind(hex_run(d, 0, 0), LAMBDA r :
         IF r.at >= 0
         THEN Ret(trim(d, r.at + 1), IF neg THEN 0 - r.ret ELSE r.ret)
         ELSE Ret(SetError(d, "bad number", <<>>), 0))

\* The log gets every return of read_number: where the cursor was at the
\* call (idx), the value returned (size) and the bytes consumed (val).
read_number(d) ==
  IF Halted(d) THEN d
  ELSE Bind(consume(d, <<"?">>), LAMBDA d1 :
       Bind(read_number_after(d1, d1.ret), LAMBDA d2 :
         Note(d2, [op |-> "number", idx |-> d.pos, size |-> d2.ret,
                   val |-> SubSeq(d.src, d.pos + 1, d2.pos)])))

\* memorize_string without the test of the size of the table.
memorize_string_unbounded(d, s) ==
  IF Halted(d) THEN d
  ELSE IF \E i \in 1..Len(d.repeated_names) : d.repeated_names[i] = s THEN d
  ELSE [Note(d, [op |-> "memorize", idx |-> Len(d.repeated_names),
                 size |-> Len(d.repeated_names) + 1, val |-> s])
          EXCEPT !.repeated_names = Append(@, s)]

memorize_string(d, s) ==
  IF Halted(d) THEN d
  ELSE IF Len(d.repeated_names) >= 10 THEN d
  ELSE IF \E i \in 1..Len(d.repeated_names) : d.repeated_names[i] = s THEN d
  ELSE [Note(d, [op |-> "memorize", idx |-> Len(d.repeated_names),
                 size |-> Len(d.repeated_names) + 1, val |-> s])
          EXCEPT !.repeated_names = Append(@, s)]

\* The index of the first '@' at or after index i of the cursor, or -1.
RECURSIVE find_at(_, _)
find_at(d, i) ==
  IF i >= InputLen(d) THEN -1
  ELSE IF InputAt(d, i) = "@" THEN i
  ELSE find_at(d, i + 1)

read_string(d, memorize) ==
  IF Halted(d) THEN d
  ELSE Bind(find_at(d, 0), LAMBDA i :
         IF i >= 0
         THEN Ret(IF memorize THEN memorize_string(trim(d, i + 1), substr(d, i))
                  ELSE trim(d, i + 1),
                  substr(d, i))
         ELSE Ret(SetError(d, "read_string: missing '@': ", InputStr(d)),
                  <<>>))

(***************************************************************************)
(* Single-byte tables.                                                     *)
(***************************************************************************)
FuncClassOf(c) ==
  CASE c = "A" -> {"Private"}
    [] c = "B" -> {"Private", "FFar"}
    [] c = "C" -> {"Private", "Static"}
    [] c = "D" -> {"Private", "Static"}
    [] c = "E" -> {"Private", "Virtual"}
    [] c = "F" -> {"Private", "Virtual"}
    [] c = "I" -> {"Protected"}
    [] c = "J" -> {"Protected", "FFar"}
    [] c = "K" -> {"Protected", "Static"}
    [] c = "L" -> {"Protected", "Static", "FFar"}
    [] c = "M" -> {"Protected", "Virtual"}
    [] c = "N" -> {"Protected", "Virtual", "FFar"}
    [] c = "Q" -> {"Public"}
    [] c = "R" -> {"Public", "FFar"}
    [] c = "S" -> {"Public", "Static"}
    [] c = "T" -> {"Public", "Static", "FFar"}
    [] c = "U" -> {"Public", "Virtual"}
    [] c = "V" -> {"Public", "Virtual", "FFar"}
    [] c = "Y" -> {"Global"}
    [] c = "Z" -> {"Global", "FFar"}
    [] OTHER -> {"?"}

read_func_class(d) ==
  IF Halted(d) THEN d
  ELSE Bind(get(d), LAMBDA g :
         IF FuncClassOf(g.ret) # {"?"} THEN Ret(g, FuncClassOf(g.ret))
         ELSE Bind(unget(g, g.ret), LAMBDA u :
                Ret(SetError(u, "unknown func class: ", InputStr(u)), {})))

read_func_access_class(d) ==
  IF Halted(d) THEN d
  ELSE IF startswith(d, <<"A">>) THEN Ret(consume(d, <<"A">>), {})
  ELSE IF startswith(d, <<"B">>) THEN Ret(consume(d, <<"B">>), {Const})
  ELSE IF startswith(d, <<"C">>) THEN Ret(consume(d, <<"C">>), {Volatile})
  ELSE IF startswith(d, <<"D">>)
    THEN Ret(consume(d, <<"D">>), {Const, Volatile})
  ELSE Ret(d, {})

\* CallingConvOf without the case 'I'.
CallingConvOf_noFastcall(c) ==
  CASE c = "A" -> "Cdecl"
    [] c = "B" -> "Cdecl"
    [] c = "C" -> "Pascal"
    [] c = "E" -> "Thiscall"
    [] c = "G" -> "Stdcall"
    [] OTHER -> "?"

CallingConvOf(c) ==
  CASE c = "A" -> "Cdecl"
    [] c = "B" -> "Cdecl"
    [] c = "C" -> "Pascal"
    [] c = "E" -> "Thiscall"
    [] c = "G" -> "Stdcall"
    [] c = "I" -> "Fastcall"
    [] OTHER -> "?"

read_calling_conv(d) ==
  IF Halted(d) THEN d
  ELSE Bind(get(d), LAMBDA g :
         IF CallingConvOf(g.ret) # "?" THEN Ret(g, CallingConvOf(g.ret))
         ELSE Bind(unget(g, g.ret), LAMBDA u :
                Ret(SetError(u, "unknown calling convention: ", InputStr(u)),
                    "Cdecl")))

StorageClassOf(c) ==
  CASE c = "A" -> {}
    [] c = "B" -> {Const}
    [] c = "C" -> {Volatile}
    [] c = "D" -> {Const, Volatile}
    [] c = "E" -> {Far}
    [] c = "F" -> {Const, Far}
    [] c = "G" -> {Volatile, Far}
    [] c = "H" -> {Const, Volatile, Far}
    [] OTHER -> {"?"}

read_storage_class(d) ==
  IF Halted(d) THEN d
  ELSE Bind(get(d), LAMBDA g :
         IF StorageClassOf(g.ret) # {"?"} THEN Ret(g, StorageClassOf(g.ret))
         ELSE Ret(unget(g, g.ret), {}))

read_storage_class_for_return(d) ==
  IF Halted(d) THEN d
  ELSE IF startswith(d, <<"?", "A">>) THEN Ret(consume(d, <<"?", "A">>), {})
  ELSE IF startswith(d, <<"?", "B">>)
    THEN Ret(consume(d, <<"?", "B">>), {Const})
  ELSE IF startswith(d, <<"?", "C">>)
    THEN Ret(consume(d, <<"?", "C">>), {Volatile})
  ELSE IF startswith(d, <<"?", "D">>)
    THEN Ret(consume(d, <<"?", "D">>), {Const, Volatile})
  ELSE Ret(d, {})

\* PrimOf without the codes G and K, which the earlier revisions of the
\* table did not read as unsigned short and unsigned long.
PrimOf_older(c) ==
  CASE c = "X" -> "Void"
    [] c = "D" -> "Char"
    [] c = "C" -> "Schar"
    [] c = "E" -> "Uchar"
    [] c = "F" -> "Short"
    [] c = "H" -> "Int"
    [] c = "I" -> "Uint"
    [] c = "J" -> "Long"
    [] c = "M" -> "Float"
    [] c = "N" -> "Double"
    [] c = "O" -> "Ldouble"
    [] OTHER -> "?"

\* The primitive a one-byte code stands for.
PrimOf(c) ==
  CASE c = "X" -> "Void"
    [] c = "D" -> "Char"
    [] c = "C" -> "Schar"
    [] c = "E" -> "Uchar"
    [] c = "F" -> "Short"
    [] c = "G" -> "Ushort"
    [] c = "H" -> "Int"
    [] c = "I" -> "Uint"
    [] c = "J" -> "Long"
    [] c = "K" -> "Ulong"
    [] c = "M" -> "Float"
    [] c = "N" -> "Double"
    [] c = "O" -> "Ldouble"
    [] OTHER -> "?"

\* The primitive the byte after '_' stands for.
PrimOf_(c) ==
  CASE c = "N" -> "Bool"
    [] c = "J" -> "Llong"
    [] c = "K" -> "Ullong"
    [] c = "W" -> "Wchar"
    [] OTHER -> "?"

read_prim_type(d) ==
  IF Halted(d) THEN d
  ELSE Bind(get(d), LAMBDA g :
         IF PrimOf(g.ret) # "?" THEN Ret(g, PrimOf(g.ret))
         ELSE IF g.ret = "_"
           THEN Bind(get(g), LAMBDA g2 :
                  IF PrimOf_(g2.ret) # "?" THEN Ret(g2, PrimOf_(g2.ret))
                  ELSE Ret(SetError(g2, "unknown primitive type: ",
                                    InputStr(d)), "Unknown"))
         ELSE Ret(SetError(g, "unknown primitive type: ", InputStr(d)),
                  "Unknown"))

(***************************************************************************)
(* The recursive grammar: names, types, parameter lists.                   *)
(***************************************************************************)
\* The width of size_t exceeds the integers TLC computes with; SizeMax stands
\* for SIZE_MAX, and only the order of a difference and 1 is taken from it.
SizeMax == 2147483647
\* a - b in size_t
SizeSub(a, b) == IF a >= b THEN a - b ELSE (SizeMax - (b - a)) + 1

\* The routines of the grammar call one another through call(f, d, a): the
\* routine named f, applied to the Demangler d and the arguments a.
RECURSIVE call(_, _, _)

read_params(d) == call("read_params_loop", d, <<NullPtr, 0, <<>>>>)

\* read_name at a digit i < repeated_names.size(): a back-reference.  The
\* element linked before head is left in d.ret.
read_name_backref(d, head, i) ==
  Bind(alloc_name(trim(d, 1)), LAMBDA d2 :
    SetN(SetN(Note(d2, [op |-> "name_ref", idx |-> i,
                        size |-> Len(d.repeated_names),
                        val |-> d.repeated_names[i + 1]]),
              d2.ret, "str", d.repeated_names[i + 1]),
         d2.ret, "next", head))

\* The log gets an identifier that read_string has read for read_name (a
\* read_string that finds no '@' leaves the cursor and reads none): the size
\* of the name table before (idx) and after (size), and the bytes (val).
Identifier(op, before, d) ==
  IF d.pos = before.pos THEN d
  ELSE Note(d, [op |-> op, idx |-> Len(before.repeated_names),
                size |-> Len(d.repeated_names), val |-> d.ret])

\* read_name_template with read_string(true).
read_name_template_memorizing(d, head) ==
  Bind(alloc_name(d), LAMBDA d1 :
  Bind(Identifier("read_tmpl", d1, read_string(d1, TRUE)), LAMBDA d2 :
  Bind(read_params(SetN(d2, d1.ret, "str", d2.ret)), LAMBDA d4 :
    Ret(expect(SetN(SetN(d4, d1.ret, "params", d4.ret), d1.ret, "next", head),
               <<"@">>),
        d1.ret))))

\* read_name after consume("?$"): a class template.
read_name_template(d, head) ==
  Bind(alloc_name(d), LAMBDA d1 :
  Bind(Identifier("read_tmpl", d1, read_string(d1, FALSE)), LAMBDA d2 :
  Bind(read_params(SetN(d2, d1.ret, "str", d2.ret)), LAMBDA d4 :
    Ret(expect(SetN(SetN(d4, d1.ret, "params", d4.ret), d1.ret, "next", head),
               <<"@">>),
        d1.ret))))

\* read_name_plain without `elem->next = head'.
read_name_plain_unlinked(d, head) ==
  Bind(alloc_name(d), LAMBDA d1 :
  Bind(Identifier("read_plain", d1, read_string(d1, TRUE)), LAMBDA d2 :
    Ret(SetN(d2, d1.ret, "str", d2.ret), d1.ret)))

\* read_name at a non-template function or class name.
read_name_plain(d, head) ==
  Bind(alloc_name(d), LAMBDA d1 :
  Bind(Identifier("read_plain", d1, read_string(d1, TRUE)), LAMBDA d2 :
    Ret(SetN(SetN(d2, d1.ret, "str", d2.ret), d1.ret, "next", head), d1.ret)))

\* One turn of the while loop of read_name that stays in the loop: the new
\* head is left in d.ret.
read_name_elem(d, head) ==
  IF startswith_digit(d)
    THEN read_name_backref(d, head, DigitVal(InputAt(d, 0)))
  ELSE IF startswith(d, <<"?", "$">>)
    THEN read_name_template(consume(d, <<"?", "$">>), head)
  ELSE read_name_plain(d, head)

\* The while loop of read_name, entered with the list built so far.
read_name_loop(d, head) ==
  CASE Halted(d) -> d
    [] startswith(d, <<"@">>) -> Ret(consume(d, <<"@">>), head)
    [] startswith_digit(d)
         /\ DigitVal(InputAt(d, 0)) >= Len(d.repeated_names) ->
         Ret(SetError(d, "name reference too large: ", InputStr(d)), NullPtr)
    [] OTHER -> Bind(read_name_elem(d, head), LAMBDA d1 :
                  call("read_name_loop", d1, <<d1.ret>>))

\* Parses a name in the form of A@B@C@@ which represents C::B::A.
read_name(d) == call("read_name_loop", d, <<NullPtr>>)

\* *tp = v, where tp is 0 for &head and a for &a->next
StoreTp(d, tp, v) == IF tp = 0 THEN d ELSE SetT(d, tp, "next", v)
\* head after *tp = v
HeadAfter(head, tp, v) == IF tp = 0 THEN v ELSE head

\* read_params without `(*tp)->next = nullptr'.
ClearNext_skipped(d, q) == d

\* The log gets a store through the null pointer *tp at the open end tp.
NullStore(d, tp) ==
  Note(d, [op |-> "null_store", idx |-> tp, size |-> d.pos, val |-> <<>>])

\* (*tp)->next = nullptr, where *tp is q.  A null q is undefined behaviour:
\* the build either traps or leaves no trace of the store.
ClearNext(d, q) ==
  IF Halted(d) THEN d
  ELSE IF q = NullPtr
    THEN IF d.ub = "trap" THEN [d EXCEPT !.crash = "null"] ELSE d
  ELSE SetT(d, q, "next", NullPtr)

\* Whether read_params memoizes a type parsed from a cursor of length
\* before, leaving it at length after, when the table holds idx entries:
\* idx <= 9 && input.len - len > 1
Memoized(idx, before, after) == idx <= 9 /\ SizeSub(after, before) > 1

\* read_params at a digit n < idx: a copy of backref[n] is linked at the open
\* end and its next is cleared.  d.ret is <<head, tp, backref>> after the turn.
read_params_backref(d, head, tp, backref, n) ==
  Bind(alloc_type(Note(trim(d, 1),
                       [op |-> "backref", idx |-> n,
                        size |-> Len(backref), val |-> <<>>]),
                  d.types[backref[n + 1]]), LAMBDA d2 :
  Bind(StoreTp(d2, tp, d2.ret), LAMBDA d3 :
    IF Halted(d3) THEN d3
    ELSE Ret(ClearNext(IF d3.types[d2.ret].next = NullPtr
                       THEN NullStore(d3, d2.ret) ELSE d3,
                       d3.types[d2.ret].next),
             <<HeadAfter(head, tp, d2.ret), d2.ret, backref>>)))

\* read_params at anything else: a type, memoized or not.
read_params_type(d, head, tp, backref) ==
  Bind(alloc_type(d, NewType), LAMBDA d1 :
  Bind(call("read_var_type", StoreTp(d1, tp, d1.ret), <<d1.ret>>), LAMBDA d3 :
    IF Memoized(Len(backref), InputLen(d), InputLen(d3))
    THEN Ret(Note(d3, [op |-> "memo_param", idx |-> Len(backref),
                       size |-> Len(backref) + 1,
                       val |-> SubSeq(d.src, d.pos + 1, d3.pos)]),
             <<HeadAfter(head, tp, d1.ret), d1.ret, Append(backref, d1.ret)>>)
    ELSE Ret(d3, <<HeadAfter(head, tp, d1.ret), d1.ret, backref>>)))

\* One turn of the while loop of read_params that stays in the loop.
read_params_elem(d, head, tp, backref) ==
  IF startswith_digit(d)
  THEN read_params_backref(d, head, tp, backref, DigitVal(InputAt(d, 0)))
  ELSE read_params_type(d, head, tp, backref)

\* The while loop of read_params: head is the list, tp its open end, backref
\* the local table (idx is its length).
read_params_loop(d, head, tp, backref) ==
  CASE Halted(d) -> d
    [] ~(d.error = NoError /\ ~startswith(d, <<"@">>)
                           /\ ~startswith(d, <<"Z">>)) -> Ret(d, head)
    [] startswith_digit(d) /\ DigitVal(InputAt(d, 0)) >= Len(backref) ->
         Ret(SetError(d, "invalid backreference: ", InputStr(d)), NullPtr)
    [] OTHER -> Bind(read_params_elem(d, head, tp, backref), LAMBDA d1 :
                  call("read_params_loop", d1, d1.ret))

read_class(d, ty, prim) ==
  Bind(read_name(SetT(d, ty, "prim", prim)), LAMBDA d2 :
    SetT(d2, ty, "name", d2.ret))

\* read_pointee without `ty.ptr = ...': the new Type is read, not linked.
read_pointee_unlinked(d, ty, prim) ==
  Bind(alloc_type(expect(SetT(d, ty, "prim", prim), <<"E">>), NewType),
       LAMBDA d3 :
  Bind(read_storage_class(d3), LAMBDA d5 :
    call("read_var_type", SetT(d5, d3.ret, "sclass", d5.ret), <<d3.ret>>)))

read_pointee(d, ty, prim) ==
  Bind(alloc_type(expect(SetT(d, ty, "prim", prim), <<"E">>), NewType),
       LAMBDA d3 :
  Bind(read_storage_class(SetT(d3, ty, "ptr", d3.ret)), LAMBDA d5 :
    call("read_var_type", SetT(d5, d3.ret, "sclass", d5.ret), <<d3.ret>>)))

\* One turn of the for loop of read_array at the node tp: the next tp is
\* left in d.ret.
read_array_elem(d, tp) ==
  Bind(read_number(SetT(d, tp, "prim", "Array")), LAMBDA d2 :
  Bind(alloc_type(SetT(d2, tp, "len", d2.ret), NewType), LAMBDA d4 :
    SetT(d4, tp, "ptr", d4.ret)))

\* The for loop of read_array from i, at the node tp: d.ret is the last tp.
read_array_loop(d, tp, i, dimension) ==
  CASE Halted(d) -> d
    [] i >= dimension -> Ret(d, tp)
    [] OTHER -> Bind(read_array_elem(d, tp), LAMBDA d1 :
                  call("read_array_loop", d1, <<d1.ret, i + 1, dimension>>))

\* The $$C block of read_array.
read_array_cv(d, ty) ==
  IF ~startswith(d, <<"$", "$", "C">>) THEN d
  ELSE Bind(consume(d, <<"$", "$", "C">>), LAMBDA c0 :
         IF startswith(c0, <<"B">>)
           THEN SetT(consume(c0, <<"B">>), ty, "sclass", {Const})
         ELSE IF startswith(c0, <<"C">>)
           THEN SetT(consume(c0, <<"C">>), ty, "sclass", {Const, Volatile})
         ELSE IF startswith(c0, <<"D">>)
           THEN SetT(consume(c0, <<"D">>), ty, "sclass", {Const, Volatile})
         ELSE IF startswith(c0, <<"A">>) THEN consume(c0, <<"A">>)
         ELSE SetError(c0, "unkonwn storage class: ", InputStr(c0)))

\* The log gets the start of an array token: where its `Y' stands (idx) and
\* the bytes that remained from there (size); read_array starts behind it.
ArrayToken(d) ==
  Note(d, [op |-> "array", idx |-> d.pos - 1, size |-> InputLen(d) + 1,
           val |-> <<>>])

\* read_array with the test `dimension < 0'.
read_array_zeroDim(d, ty) ==
  Bind(read_number(ArrayToken(d)), LAMBDA d1 :
    IF Halted(d1) THEN d1
    ELSE IF d1.ret < 0
      THEN SetError(d1, "invalid array dimension: ", to_string(d1.ret))
    ELSE Bind(call("read_array_loop", d1, <<ty, 0, d1.ret>>), LAMBDA d2 :
           IF Halted(d2) THEN d2
           ELSE call("read_var_type", read_array_cv(d2, ty), <<d2.ret>>)))

read_array(d, ty) ==
  Bind(read_number(ArrayToken(d)), LAMBDA d1 :
    IF Halted(d1) THEN d1
    ELSE IF d1.ret <= 0
      THEN SetError(d1, "invalid array dimension: ", to_string(d1.ret))
    ELSE Bind(call("read_array_loop", d1, <<ty, 0, d1.ret>>), LAMBDA d2 :
           IF Halted(d2) THEN d2
           ELSE call("read_var_type", read_array_cv(d2, ty), <<d2.ret>>)))

\* skip_terminator taking `@' and any byte after it for the terminator.
skip_terminator_anyByte(d) ==
  IF Halted(d) THEN d
  ELSE IF startswith(d, <<"@">>) /\ InputLen(d) >= 2 THEN trim(d, 2)
  ELSE IF startswith(d, <<"Z">>) THEN trim(d, 1)
  ELSE d

\* The end of the P6A block: the terminator of the parameter list.
skip_terminator(d) ==
  IF Halted(d) THEN d
  ELSE IF startswith(d, <<"@", "Z">>) THEN trim(d, 2)
  ELSE IF startswith(d, <<"Z">>) THEN trim(d, 1)
  ELSE d

\* read_var_type after consume("P6A"): a pointer to a function.
read_func_ptr(d, ty) ==
  Bind(alloc_type(SetT(d, ty, "prim", "Ptr"), NewType), LAMBDA d2 :
  Bind(alloc_type(SetT(SetT(d2, ty, "ptr", d2.ret), d2.ret, "prim", "Function"),
                  NewType), LAMBDA d4 :
  Bind(read_params(call("read_var_type", SetT(d4, d2.ret, "ptr", d4.ret),
                        <<d4.ret>>)), LAMBDA d7 :
    skip_terminator(SetT(d7, d2.ret, "params", d7.ret)))))

\* Reads a variable type.
read_var_type(d, ty) ==
  IF Halted(d) THEN d
  ELSE IF startswith(d, <<"W", "4">>)
    THEN Bind(read_name(SetT(consume(d, <<"W", "4">>), ty, "prim", "Enum")),
              LAMBDA d2 : SetT(d2, ty, "name", d2.ret))
  ELSE IF startswith(d, <<"P", "6", "A">>)
    THEN read_func_ptr(consume(d, <<"P", "6", "A">>), ty)
  ELSE Bind(get(d), LAMBDA g :
         CASE g.ret = "T" -> read_class(g, ty, "Union")
           [] g.ret = "U" -> read_class(g, ty, "Struct")
           [] g.ret = "V" -> read_class(g, ty, "Class")
           [] g.ret = "A" -> read_pointee(g, ty, "Ref")
           [] g.ret = "P" -> read_pointee(g, ty, "Ptr")
           [] g.ret = "Q" ->
                SetT(read_pointee(g, ty, "Ptr"), ty, "sclass", {Const})
           [] g.ret = "Y" -> read_array(g, ty)
           [] OTHER -> Bind(read_prim_type(unget(g, g.ret)), LAMBDA d1 :
                         SetT(d1, ty, "prim", d1.ret)))

call(f, d, a) ==
  CASE f = "read_name_loop" -> read_name_loop(d, a[1])
    [] f = "read_params_loop" -> read_params_loop(d, a[1], a[2], a[3])
    [] f = "read_array_loop" -> read_array_loop(d, a[1], a[2], a[3])
    [] f = "read_var_type" -> read_var_type(d, a[1])

\* <return-type> ::= <type> | @
read_func_return_type(d, ty) ==
  IF startswith(d, <<"@">>)
  THEN SetT(consume(d, <<"@">>), ty, "prim", "None")
  ELSE call("read_var_type", d, <<ty>>)

(***************************************************************************)
(* Demangler::parse.  The root Type is types[1].                           *)
(***************************************************************************)
Root == 1

\* The block of parse for a symbol without the leading '?'.
parse_unmangled(d) ==
  Bind(alloc_name(d), LAMBDA a :
    IF Halted(a) THEN a
    ELSE SetT([SetN(a, a.ret, "str", InputStr(a)) EXCEPT !.symbol = a.ret],
              Root, "prim", "Unknown"))

\* symbol = read_name()
parse_symbol(d) ==
  Bind(read_name(d), LAMBDA n :
    IF Halted(n) THEN n ELSE [n EXCEPT !.symbol = n.ret])

\* The block of parse after consume("Y"): a non-member function.
parse_func(d) ==
  Bind(read_calling_conv(SetT(d, Root, "prim", "Function")), LAMBDA f2 :
  Bind(alloc_type(SetT(f2, Root, "calling_conv", f2.ret), NewType), LAMBDA f4 :
  Bind(read_storage_class_for_return(SetT(f4, Root, "ptr", f4.ret)),
       LAMBDA f6 :
  Bind(read_params(call("read_var_type", SetT(f6, f4.ret, "sclass", f6.ret),
                        <<f4.ret>>)), LAMBDA f9 :
    SetT(f9, Root, "params", f9.ret)))))

\* The rest of parse: a member function.
parse_member_func(d) ==
  Bind(read_func_class(SetT(d, Root, "prim", "Function")), LAMBDA m2 :
  Bind(read_func_access_class(expect(SetT(m2, Root, "func_class", m2.ret),
                                     <<"E">>)), LAMBDA m5 :
  Bind(read_calling_conv(SetT(m5, Root, "sclass", m5.ret)), LAMBDA m7 :
  Bind(alloc_type(SetT(m7, Root, "calling_conv", m7.ret), NewType),
       LAMBDA m9 :
  Bind(read_storage_class(SetT(m9, Root, "ptr", m9.ret)), LAMBDA m11 :
  Bind(read_params(read_func_return_type(
                     SetT(m11, m9.ret, "sclass", m11.ret), m9.ret)),
       LAMBDA m14 :
    SetT(m14, Root, "params", m14.ret)))))))

\* Parser entry point.
parse(d) ==
  Bind(parse_symbol(IF startswith(d, <<"?">>) THEN consume(d, <<"?">>)
                    ELSE parse_unmangled(d)), LAMBDA d1 :
    IF startswith(d1, <<"3">>) /\ ~Halted(d1)
      THEN call("read_var_type", consume(d1, <<"3">>), <<Root>>)
    ELSE IF startswith(d1, <<"Y">>) /\ ~Halted(d1)
      THEN parse_func(consume(d1, <<"Y">>))
    ELSE parse_member_func(d1))

(***************************************************************************)
(* The writer.  os is the text written so far; every write_* operator      *)
(* gives the text after the call.                                          *)
(***************************************************************************)
Primitives == {"Void", "Bool", "Char", "Schar", "Uchar", "Short", "Ushort",
               "Int", "Uint", "Long", "Ulong", "Llong", "Ullong", "Wchar",
               "Float", "Double", "Ldouble"}

\* The text write_pre emits for a primitive.
Keyword(prim) ==
  CASE prim = "Void" -> <<"v", "o", "i", "d">>
    [] prim = "Bool" -> <<"b", "o", "o", "l">>
    [] prim = "Char" -> <<"c", "h", "a", "r">>
    [] prim = "Schar" ->
         <<"s", "i", "g", "n", "e", "d", " ", "c", "h", "a", "r">>
    [] prim = "Uchar" ->
         <<"u", "n", "s", "i", "g", "n", "e", "d", " ", "c", "h", "a", "r">>
    [] prim = "Short" -> <<"s", "h", "o", "r", "t">>
    [] prim = "Ushort" ->
         <<"u", "n", "s", "i", "g", "n", "e", "d", " ", "s", "h", "o", "r",
         "t">>
    [] prim = "Int" -> <<"i", "n", "t">>
    [] prim = "Uint" ->
         <<"u", "n", "s", "i", "g", "n", "e", "d", " ", "i", "n", "t">>
    [] prim = "Long" -> <<"l", "o", "n", "g">>
    [] prim = "Ulong" ->
         <<"u", "n", "s", "i", "g", "n", "e", "d", " ", "l", "o", "n", "g">>
    [] prim = "Llong" -> <<"l", "o", "n", "g", " ", "l", "o", "n", "g">>
    [] prim = "Ullong" ->
         <<"u", "n", "s", "i", "g", "n", "e", "d", " ", "l", "o", "n", "g",
         " ", "l", "o", "n", "g">>
    [] prim = "Wchar" -> <<"w", "c", "h", "a", "r", "_", "t">>
    [] prim = "Float" -> <<"f", "l", "o", "a", "t">>
    [] prim = "Double" -> <<"d", "o", "u", "b", "l", "e">>
    [] prim = "Ldouble" ->
         <<"l", "o", "n", "g", " ", "d", "o", "u", "b", "l", "e">>

\* Writes a space if the last token does not end with a punctuation.
write_space(os) ==
  IF os # <<>> /\ isalpha(os[Len(os)]) THEN os \o <<" ">> ELSE os

\* name->str.startswith(lit), for a String value
StrStartsWith(s, lit) == Len(lit) <= Len(s) /\ SubSeq(s, 1, Len(lit)) = lit
\* String::substr(off)
StrSubstr(s, off) == SubSeq(s, off + 1, Len(s))

\* The routines of the writer call one another through emit(f, d, os, a):
\* the routine named f, writing after os, applied to the arguments a.
RECURSIVE emit(_, _, _, _)

\* One turn of the for loop of write_params, at the node tp.
write_param(d, os, params, tp) ==
  Bind(emit("write_pre", d, IF tp # params THEN os \o <<",">> ELSE os, <<tp>>),
       LAMBDA o1 : emit("write_post", d, o1, <<tp>>))

\* The for loop of write_params at the node tp of the list params.
write_params_from(d, os, params, tp) ==
  IF tp = NullPtr THEN os
  ELSE Bind(write_param(d, os, params, tp), LAMBDA o2 :
         emit("write_params_from", d, o2, <<params, d.types[tp].next>>))

\* Write a function or template parameter list.
write_params(d, os, params) ==
  emit("write_params_from", d, os, <<params, params>>)

write_tmpl_params(d, os, name) ==
  IF d.names[name].params = NullPtr THEN os
  ELSE write_params(d, os \o <<"<">>, d.names[name].params) \o <<">">>

\* The ?0 and ?1 blocks of write_name: s, the parameters, then sep and s.
write_structor(d, os, name, s, sep) ==
  write_params(d, os \o s, d.names[name].params) \o sep \o s

\* write_name_from with the ?1 block writing what the ?0 block writes.
write_name_from_noTilde(d, os, name) ==
  IF d.names[name].next # NullPtr
  THEN Bind(write_tmpl_params(d, os \o d.names[name].str, name), LAMBDA o1 :
         emit("write_name_from", d, o1 \o <<":", ":">>,
              <<d.names[name].next>>))
  ELSE IF StrStartsWith(d.names[name].str, <<"?", "0">>)
    THEN write_structor(d, os, name, StrSubstr(d.names[name].str, 2),
                        <<":", ":">>)
  ELSE IF StrStartsWith(d.names[name].str, <<"?", "1">>)
    THEN write_structor(d, os, name, StrSubstr(d.names[name].str, 2),
                        <<":", ":">>)
  ELSE write_tmpl_params(d, os \o d.names[name].str, name)

\* write_name after its write_space, at the component name.
write_name_from(d, os, name) ==
  IF d.names[name].next # NullPtr
  THEN Bind(write_tmpl_params(d, os \o d.names[name].str, name), LAMBDA o1 :
         emit("write_name_from", d, o1 \o <<":", ":">>,
              <<d.names[name].next>>))
  ELSE IF StrStartsWith(d.names[name].str, <<"?", "0">>)
    THEN write_structor(d, os, name, StrSubstr(d.names[name].str, 2),
                        <<":", ":">>)
  ELSE IF StrStartsWith(d.names[name].str, <<"?", "1">>)
    THEN write_structor(d, os, name, StrSubstr(d.names[name].str, 2),
                        <<":", ":", "~">>)
  ELSE write_tmpl_params(d, os \o d.names[name].str, name)

\* Write a name read by read_name().
write_name(d, os, name) ==
  IF name = NullPtr THEN os
  ELSE emit("write_name_from", d, write_space(os), <<name>>)

\* The text after the switch of write_pre: the const of the storage class.
write_const(os, sclass) ==
  IF Const \in sclass
  THEN write_space(os) \o <<"c", "o", "n", "s", "t">>
  ELSE os

\* The text the switch of write_pre writes for the Type ty at address a.
write_pre_switch(d, os, ty) ==
  CASE ty.prim \in {"Ptr", "Ref"} ->
         (IF d.types[ty.ptr].prim \in {"Function", "Array"}
          THEN emit("write_pre", d, os, <<ty.ptr>>) \o <<"(">>
          ELSE emit("write_pre", d, os, <<ty.ptr>>))
           \o (IF ty.prim = "Ptr" THEN <<"*">> ELSE <<"&">>)
    [] ty.prim = "Array" -> emit("write_pre", d, os, <<ty.ptr>>)
    [] ty.prim = "Struct" ->
         write_name(d, os \o <<"s", "t", "r", "u", "c", "t", " ">>, ty.name)
    [] ty.prim = "Union" ->
         write_name(d, os \o <<"u", "n", "i", "o", "n", " ">>, ty.name)
    [] ty.prim = "Class" ->
         write_name(d, os \o <<"c", "l", "a", "s", "s", " ">>, ty.name)
    [] ty.prim = "Enum" ->
         write_name(d, os \o <<"e", "n", "u", "m", " ">>, ty.name)
    [] ty.prim \in Primitives -> os \o Keyword(ty.prim)
    [] OTHER -> os

\* Write the "first half" of a given type.
write_pre(d, os, a) ==
  IF d.types[a].prim = "Function"
  THEN emit("write_pre", d, os, <<d.types[a].ptr>>)
  ELSE write_const(write_pre_switch(d, os, d.types[a]), d.types[a].sclass)

\* The blocks of write_post for the Type ty.
write_post_of(d, os, ty) ==
  IF ty.prim = "Function"
  THEN write_params(d, os \o <<"(">>, ty.params) \o <<")">>
         \o (IF Const \in ty.sclass THEN <<"c", "o", "n", "s", "t">>
             ELSE <<>>)
  ELSE IF ty.prim \in {"Ptr", "Ref"}
  THEN emit("write_post", d,
            IF d.types[ty.ptr].prim \in {"Function", "Array"}
            THEN os \o <<")">> ELSE os,
            <<ty.ptr>>)
  ELSE IF ty.prim = "Array"
  THEN emit("write_post", d,
            os \o <<"[">> \o u32_to_string(ty.len) \o <<"]">>, <<ty.ptr>>)
  ELSE os

\* Write the "second half" of a given type.
write_post(d, os, a) == write_post_of(d, os, d.types[a])

emit(f, d, os, a) ==
  CASE f = "write_pre" -> write_pre(d, os, a[1])
    [] f = "write_post" -> write_post(d, os, a[1])
    [] f = "write_params_from" -> write_params_from(d, os, a[1], a[2])
    [] f = "write_name_from" -> write_name_from(d, os, a[1])

\* Demangler::str: the text of the stream after the three writes.
str(d, os) ==
  Bind(emit("write_pre", d, os, <<Root>>), LAMBDA o1 :
  Bind(write_name(d, o1, d.symbol), LAMBDA o2 :
    emit("write_post", d, o2, <<Root>>)))

(***************************************************************************)
(* The program: a Demangler is constructed on a symbol, parse() is called  *)
(* once, and if it returns with the error string empty str() is called.    *)
(***************************************************************************)
VARIABLES
  src,             \* the bytes of the symbol handed to the constructor
  pos,             \* the cursor: bytes of src consumed (input.p - src)
  error,           \* Demangler::error
  types,           \* the Type nodes: types[1] is Demangler::type
  names,           \* the Name nodes of the arena
  symbol,          \* Demangler::symbol
  repeated_names,  \* Demangler::repeated_names
  os,              \* Demangler::os
  result,          \* what the last call of str() returned
  strCalls,        \* calls of str() so far
  pc,              \* "constructed", "parsed", "halted" or "written"
  crash,           \* why parse() did not return: "", "arena" or "null"
  ub,              \* what a store through nullptr does in this build
  arena,           \* Demangler::arena: its buf, nused and buf2
  allocs,          \* the addresses Arena::alloc has returned, in order
  log              \* the cursor moves and table accesses of parse(), in order

vars == <<src, pos, error, types, names, symbol, repeated_names, os, result,
          strCalls, pc, crash, ub, arena, allocs, log>>

\* The Demangler object as the operators above take it.
Self ==
  [src |-> src, pos |-> pos, error |-> error, types |-> types,
   names |-> names, symbol |-> symbol, repeated_names |-> repeated_names,
   crash |-> crash, ub |-> ub, arena |-> arena, allocs |-> allocs,
   log |-> log, ret |-> 0]

(***************************************************************************)
(* The symbols the Demangler is constructed on: bounded families of        *)
(* well-formed symbols, and every byte string over RawChars up to MaxRaw.  *)
(***************************************************************************)
\* Longest identifier of a variable symbol.
MaxIdLen == 2
\* Most components of a qualified name.
MaxNames == 3
\* Most parameters of a function symbol made of primitives.
MaxParams == 2
\* Most tokens of a parameter list with back-references.
MaxToks == 3
\* Most distinct names, and most parameters, of the table-filling symbols.
MaxDistinct == 11
\* Longest raw byte string.
MaxRaw == 3

RECURSIVE Flatten(_)
Flatten(ss) == IF ss = <<>> THEN <<>> ELSE Head(ss) \o Flatten(Tail(ss))
SeqsUpTo(S, n) == UNION {[1..k -> S] : k \in 0..n}
Repeat(s, k) == Flatten([i \in 1..k |-> s])

IdChars == {"x", "H"}
Ids == SeqsUpTo(IdChars, MaxIdLen) \ {<<>>}
NameAtoms == {<<"x">>, <<"n", "s">>, <<"a">>}
NameSeqs == SeqsUpTo(NameAtoms, MaxNames) \ {<<>>}
PrimCodes == {<<"X">>, <<"D">>, <<"C">>, <<"E">>, <<"F">>, <<"G">>, <<"H">>,
              <<"I">>, <<"J">>, <<"K">>, <<"M">>, <<"N">>, <<"O">>,
              <<"_", "N">>, <<"_", "J">>, <<"_", "K">>, <<"_", "W">>}
ConvCodes == {"A", "B", "C", "E", "G", "I"}
ParamPrims == {<<"H">>, <<"D">>, <<"K">>, <<"_", "N">>}
PrimLists == SeqsUpTo(ParamPrims, MaxParams) \cup {<<p>> : p \in PrimCodes}
Terminators == {<<"Z">>, <<"@", "Z">>}
ParamToks == {<<"H">>, <<"_", "N">>, <<"P", "E", "A", "H">>,
              <<"P", "E", "B", "D">>, <<"0">>, <<"1">>}
TokLists == SeqsUpTo(ParamToks, MaxToks)
DistinctNames == <<"a", "b", "c", "d", "e", "f", "g", "h", "i", "j", "k",
                   "l", "m", "n", "o", "p">>
RawChars == {"x", "@", "?", "3", "H", "0"}

\* ? id @@3 P A: a variable of a primitive type
VarSymbol(id, P) == <<"?">> \o id \o <<"@", "@", "3">> \o P \o <<"A">>
\* ? n1 @ ... nk @ @3HA: an int variable with a qualified name
QualSymbol(ns) ==
  <<"?">> \o Flatten([i \in 1..Len(ns) |-> ns[i] \o <<"@">>])
          \o <<"@", "3", "H", "A">>
\* ? x @@3 (A|P|Q) E sc P E sc: a variable of a pointer or reference type
PtrSymbol(k, sc, P) ==
  <<"?", "x", "@", "@", "3", k, "E", sc>> \o P \o <<"E", sc>>
\* ? id @@Y conv R P1..Pk term: a non-member function
FuncSymbol(id, conv, R, ps, term) ==
  <<"?">> \o id \o <<"@", "@", "Y", conv>> \o R \o Flatten(ps) \o term
\* ? x @ a @ b @ ... (k names) digit @ @3HA: names, then a back-reference
NameRefSymbol(k, j) ==
  <<"?", "x", "@">> \o Flatten([i \in 1..k |-> <<DistinctNames[i], "@">>])
     \o <<Digits[j + 1]>> \o <<"@", "3", "H", "A">>
\* ? f @@YAH P^k digit @Z: k parameters P, then a back-reference
ParamRefSymbol(P, k, j) ==
  <<"?", "f", "@", "@", "Y", "A", "H">> \o Repeat(P, k)
     \o <<Digits[j + 1]>> \o <<"@", "Z">>

\* The bytes read where the 64-bit marker `E' is expected: the marker, and
\* bytes that are not it.
MarkerBytes == {"E", "A", "B", "H", "X"}
FuncClassCodes == {"A", "Q", "S", "U"}
\* ? f @ C @@ cls m acc A R XZ: a member function of C
MemberSymbol(cls, m, acc, R) ==
  <<"?", "f", "@", "C", "@", "@", cls, m, acc, "A">> \o R \o <<"X", "Z">>
\* The primitive codes C..H, which are storage-class codes as well.
MemberReturns == {<<"C">>, <<"D">>, <<"E">>, <<"F">>, <<"G">>, <<"H">>}
\* ? x @@3 k m A P A: a pointer or reference with the byte m after k
MarkerSymbol(k, m, P) == <<"?", "x", "@", "@", "3", k, m, "A">> \o P \o <<"A">>

StructorTags == {<<"?", "0">>, <<"?", "1">>}
ClassAtoms == {<<"C">>, <<"n", "s">>}
OuterSeqs == SeqsUpTo(NameAtoms, MaxNames - 1)
\* ? tag S @ o1 @ ... ok @ @QEAA@XZ: a constructor or destructor of S
StructorSymbol(tag, S, outer) ==
  <<"?">> \o tag \o S \o <<"@">>
     \o Flatten([i \in 1..Len(outer) |-> outer[i] \o <<"@">>])
     \o <<"@", "Q", "E", "A", "A", "@", "X", "Z">>

\* Most parameters of a function symbol made of declarator types.
MaxDeclParams == 1
\* Types with a declarator: pointers and references to primitives, to
\* functions, to arrays and to aggregates (named or with an empty name).
DeclTypes ==
  {<<"H">>, <<"P", "E", "A", "H">>, <<"A", "E", "A", "H">>, <<"Q", "E", "A", "H">>,
   <<"P", "E", "B", "D">>, <<"P", "E", "A", "P", "E", "A", "H">>,
   <<"P", "6", "A", "H", "H", "@", "Z">>,
   <<"P", "E", "A", "Y", "0", "9", "H">>,
   <<"A", "E", "A", "Y", "0", "9", "H">>, <<"Y", "0", "9", "H">>,
   <<"V", "@">>, <<"V", "C", "@", "@">>, <<"P", "E", "A", "V", "@">>,
   <<"P", "E", "A", "V", "C", "@", "@">>,
   <<"W", "4", "E", "@", "@">>,
   <<"V", "?", "$", "T", "@", "H", "@", "@">>}
\* The types among them that the functions take as parameters.
DeclParams ==
  {<<"P", "E", "A", "H">>, <<"P", "6", "A", "H", "H", "@", "Z">>,
   <<"P", "E", "A", "Y", "0", "9", "H">>, <<"P", "E", "A", "V", "@">>,
   <<"V", "?", "$", "T", "@", "H", "@", "@">>}
DeclIds == {<<"f">>, <<"a">>}
\* ? id @@3 T EA: a variable of the type T
VarOf(id, T) == <<"?">> \o id \o <<"@", "@", "3">> \o T \o <<"E", "A">>
\* ? f @@YA R P1..Pk @Z: a function of return type R
FuncOf(R, ps) == FuncSymbol(<<"f">>, "A", R, ps, <<"@", "Z">>)

\* The codes of the aggregate types: union, struct, class, enum.
AggrCodes == {<<"T">>, <<"U">>, <<"V">>, <<"W", "4">>}
\* Names of one component for them, as encoded and as written: identifiers
\* that end in a letter, a digit and an underscore, and a template.
AggrNames ==
  {[code |-> <<"C", "@">>, text |-> <<"C">>],
   [code |-> <<"C", "1", "@">>, text |-> <<"C", "1">>],
   [code |-> <<"C", "_", "@">>, text |-> <<"C", "_">>],
   [code |-> <<"?", "$", "T", "@", "H", "@">>,
    text |-> <<"T", "<", "i", "n", "t", ">">>]}
\* ? id @@3 kw name @ EA: a variable of the aggregate type kw name
AggrVar(id, kw, nm) == VarOf(id, kw \o nm.code \o <<"@">>)

\* Most dimensions of an array symbol.
MaxDim == 2
\* The codes of the lengths 1, 10, 16 and 0.
LenCodes == {<<"0">>, <<"9">>, <<"B", "A", "@">>, <<"A", "@">>}
\* The codes of the dimensions -1, -2, 0 and 0.
BadDimCodes == {<<"?", "0">>, <<"?", "1">>, <<"A", "@">>, <<"@">>}
\* ? a @@3 Y dim l1..ld P A: an array of the primitive P
ArraySymbol(dim, lens, P) ==
  <<"?", "a", "@", "@", "3", "Y">> \o dim \o Flatten(lens) \o P \o <<"A">>
\* The template arguments of the template symbols: a primitive and classes.
TmplArgs == {<<"H">>, <<"V", "a", "@", "@">>, <<"V", "x", "@", "@">>}
\* ? n1 @ ?$ T @ arg @ n2 @ @3HA: an int variable n2::T<arg>::n1
TmplSymbol(n1, T, arg, n2) ==
  <<"?">> \o n1 \o <<"@", "?", "$">> \o T \o <<"@">> \o arg \o <<"@">> \o n2
     \o <<"@", "@", "3", "H", "A">>

\* The codes of the dimensions 10 and 16, for tokens shorter than that.
LongDimCodes == {<<"9">>, <<"B", "A", "@">>}
\* Most bytes after a symbol.
MaxTail == 3
\* Symbols that parse without error, some up to their last byte and some
\* with the cursor before a terminator.
TrailBases ==
  {<<"?", "x", "@", "@", "3", "H">>,
   <<"?", "x", "@", "@", "3", "P", "E", "A", "H">>,
   <<"?", "x", "@", "@", "3", "V", "C", "@", "@">>,
   <<"?", "x", "@", "@", "3", "Y", "0", "0", "H">>,
   <<"?", "x", "@", "@", "3", "P", "6", "A", "H", "H", "@">>,
   <<"?", "x", "@", "@", "3", "P", "6", "A", "H", "H", "Z">>,
   <<"?", "f", "@", "@", "Y", "A", "H", "H", "@">>,
   <<"?", "f", "@", "@", "Y", "A", "H", "H", "Z">>,
   <<"?", "f", "@", "@", "Y", "A", "H", "P", "E", "A", "H", "@">>,
   <<"?", "f", "@", "@", "Y", "A", "H", "P", "6", "A", "H", "H", "@">>,
   <<"?", "f", "@", "@", "Y", "A", "H", "P", "6", "A", "H", "H", "Z">>,
   <<"?", "f", "@", "@", "Y", "A", "P", "6", "A", "H", "H", "@">>,
   <<"?", "f", "@", "C", "@", "@", "Q", "E", "A", "A", "X", "X", "Z">>,
   <<"?", "f", "@", "C", "@", "@", "Q", "E", "A", "A", "X", "P", "6", "A", "H",
     "H", "@">>}
\* The bytes after them.
TailChars == {"Z", "@", "H"}
Tails == SeqsUpTo(TailChars, MaxTail)

\* What read_number finds at the cursor: the two forms with and without `?',
\* a lone `@', runs of hex letters that no `@' ends, and other bytes.
NumberCodes ==
  {<<"0">>, <<"9">>, <<"?", "0">>, <<"?", "9">>,
   <<"A", "@">>, <<"P", "@">>, <<"B", "A", "@">>, <<"?", "B", "A", "@">>,
   <<"@">>, <<"?", "@">>, <<"B">>, <<"?", "B">>, <<"B", "x">>, <<"x">>,
   <<"?">>, <<"Q", "@">>}
\* The bytes that follow the number.
NumberTails == {<<"H">>, <<"X">>}

Inputs ==
  {VarSymbol(id, P) : id \in Ids, P \in PrimCodes}
    \cup UNION {{ArraySymbol(<<Digits[n]>>, lens, P) :
                    lens \in [1..n -> LenCodes], P \in ParamPrims} :
                 n \in 1..MaxDim}
    \cup {ArraySymbol(dim, <<>>, P) : dim \in BadDimCodes, P \in ParamPrims}
    \cup {ArraySymbol(dim, <<>>, P) : dim \in LongDimCodes, P \in NumberTails}
    \cup {ArraySymbol(<<"0">>, <<c>>, P) : c \in NumberCodes, P \in NumberTails}
    \cup {VarOf(id, T) : id \in DeclIds, T \in DeclTypes}
    \cup {AggrVar(id, kw, nm) :
             id \in DeclIds, kw \in AggrCodes, nm \in AggrNames}
    \cup {FuncOf(R, ps) : R \in DeclTypes,
                          ps \in SeqsUpTo(DeclParams, MaxDeclParams)}
    \cup {StructorSymbol(tag, S, outer) :
             tag \in StructorTags, S \in ClassAtoms, outer \in OuterSeqs}
    \cup {QualSymbol(<<<<"x">>, tag \o S>>) :
             tag \in StructorTags, S \in ClassAtoms}
    \cup {MemberSymbol(cls, m, acc, R) :
             cls \in FuncClassCodes, m \in MarkerBytes, acc \in {"A", "B"},
             R \in {<<"H">>, <<"X">>}}
    \cup {MemberSymbol(cls, "E", acc, R) :
             cls \in FuncClassCodes, acc \in {"A", "B"}, R \in MemberReturns}
    \cup {MarkerSymbol(k, m, P) : k \in {"A", "P", "Q"}, m \in MarkerBytes,
                                    P \in ParamPrims}
    \cup {QualSymbol(ns) : ns \in NameSeqs}
    \cup {s \o t : s \in TrailBases, t \in Tails}
    \cup {TmplSymbol(n1, T, arg, n2) :
             n1 \in NameAtoms, T \in NameAtoms, arg \in TmplArgs,
             n2 \in NameAtoms}
    \cup {PtrSymbol(k, sc, P) : k \in {"A", "P", "Q"}, sc \in {"A", "B"},
                                P \in ParamPrims}
    \cup {FuncSymbol(<<"f">>, conv, R, <<<<"X">>>>, term) :
             conv \in ConvCodes, R \in PrimCodes, term \in Terminators}
    \cup {FuncSymbol(<<"g">>, "A", <<"X">>, ps, term) :
             ps \in PrimLists, term \in Terminators}
    \cup {FuncSymbol(<<"f">>, "A", <<"H">>, ts, <<"@", "Z">>) :
             ts \in TokLists}
    \cup {NameRefSymbol(k, j) : k \in 0..MaxDistinct, j \in 0..9}
    \cup {ParamRefSymbol(P, k, j) : P \in {<<"H">>, <<"P", "E", "A", "H">>},
                                    k \in 0..MaxDistinct, j \in 0..9}
    \cup SeqsUpTo(RawChars, MaxRaw)

Init ==
  /\ src \in Inputs
  /\ ub \in {"trap", "elide"}
  /\ pos = 0
  /\ error = NoError
  /\ types = <<NewType>>
  /\ names = <<>>
  /\ symbol = NullPtr
  /\ repeated_names = <<>>
  /\ os = <<>>
  /\ result = <<>>
  /\ strCalls = 0
  /\ pc = "constructed"
  /\ crash = ""
  /\ arena = NewArena
  /\ allocs = <<>>
  /\ log = <<>>

\* demangler.parse()
Parse ==
  /\ pc = "constructed"
  /\ \E d \in {parse(Self)} :
       /\ pos' = d.pos
       /\ error' = d.error
       /\ types' = d.types
       /\ names' = d.names
       /\ symbol' = d.symbol
       /\ repeated_names' = d.repeated_names
       /\ crash' = d.crash
       /\ arena' = d.arena
       /\ allocs' = d.allocs
       /\ log' = d.log
       /\ pc' = IF d.crash = "" THEN "parsed" ELSE "halted"
  /\ UNCHANGED <<src, os, result, strCalls, ub>>

\* demangler.str(), called as main does: only after a parse without error.
Str ==
  /\ pc \in {"parsed", "written"}
  /\ error = NoError
  /\ strCalls < MaxStrCalls
  /\ os' = str(Self, os)
  /\ result' = os'
  /\ strCalls' = strCalls + 1
  /\ pc' = "written"
  /\ UNCHANGED <<src, pos, error, types, names, symbol, repeated_names,
                 crash, ub, arena, allocs, log>>

Next == Parse \/ Str

Spec == Init /\ [][Next]_vars

(***************************************************************************)
(* The Arena by itself: a Demangler is constructed on the empty symbol and *)
(* its Arena is asked for memory, call after call.                         *)
(***************************************************************************)
\* Calls of Arena::alloc on one Arena.
MaxAllocs == 5
\* The sizes asked for: the two node sizes, and sizes that fill a page in a
\* few calls.
AllocSizes == {SizeofName, SizeofType, 2048, 4000, 4095}

ArenaInit ==
  /\ src = <<>>
  /\ ub = "trap"
  /\ pos = 0
  /\ error = NoError
  /\ types = <<NewType>>
  /\ names = <<>>
  /\ symbol = NullPtr
  /\ repeated_names = <<>>
  /\ os = <<>>
  /\ result = <<>>
  /\ strCalls = 0
  /\ pc = "constructed"
  /\ crash = ""
  /\ arena = NewArena
  /\ allocs = <<>>
  /\ log = <<>>

\* arena.alloc(size)
Alloc ==
  /\ Len(allocs) < MaxAllocs
  /\ \E size \in AllocSizes :
       /\ arena' = ArenaAlloc(arena, size).arena
       /\ allocs' = Append(allocs, ArenaAlloc(arena, size).p)
  /\ UNCHANGED <<src, pos, error, types, names, symbol, repeated_names, os,
                 result, strCalls, pc, crash, ub, log>>

ArenaNext == Alloc

ArenaSpec == ArenaInit /\ [][ArenaNext]_vars

(***************************************************************************)
(* What the specification says of the program.                             *)
(***************************************************************************)
\* The keyword the specification gives the primitive code P.
SpecKeyword(P) ==
  CASE P = <<"X">> -> <<"v", "o", "i", "d">>
    [] P = <<"D">> -> <<"c", "h", "a", "r">>
    [] P = <<"C">> ->
         <<"s", "i", "g", "n", "e", "d", " ", "c", "h", "a", "r">>
    [] P = <<"E">> ->
         <<"u", "n", "s", "i", "g", "n", "e", "d", " ", "c", "h", "a",
         "r">>
    [] P = <<"F">> -> <<"s", "h", "o", "r", "t">>
    [] P = <<"G">> ->
         <<"u", "n", "s", "i", "g", "n", "e", "d", " ", "s", "h", "o", "r",
         "t">>
    [] P = <<"H">> -> <<"i", "n", "t">>
    [] P = <<"I">> ->
         <<"u", "n", "s", "i", "g", "n", "e", "d", " ", "i", "n", "t">>
    [] P = <<"J">> -> <<"l", "o", "n", "g">>
    [] P = <<"K">> ->
         <<"u", "n", "s", "i", "g", "n", "e", "d", " ", "l", "o", "n",
         "g">>
    [] P = <<"M">> -> <<"f", "l", "o", "a", "t">>
    [] P = <<"N">> -> <<"d", "o", "u", "b", "l", "e">>
    [] P = <<"O">> ->
         <<"l", "o", "n", "g", " ", "d", "o", "u", "b", "l", "e">>
    [] P = <<"_", "N">> -> <<"b", "o", "o", "l">>
    [] P = <<"_", "J">> -> <<"l", "o", "n", "g", " ", "l", "o", "n", "g">>
    [] P = <<"_", "K">> ->
         <<"u", "n", "s", "i", "g", "n", "e", "d", " ", "l", "o", "n", "g",
         " ", "l", "o", "n", "g">>
    [] P = <<"_", "W">> -> <<"w", "c", "h", "a", "r", "_", "t">>

\* The texts ss joined by sep, in order.
RECURSIVE JoinWith(_, _)
JoinWith(ss, sep) ==
  IF ss = <<>> THEN <<>>
  ELSE IF Len(ss) = 1 THEN ss[1]
  ELSE ss[1] \o sep \o JoinWith(Tail(ss), sep)

Reverse(ss) == [i \in 1..Len(ss) |-> ss[(Len(ss) + 1) - i]]

\* The texts of the Name list at address n, following next.
RECURSIVE NameTexts(_)
NameTexts(n) ==
  IF n = NullPtr THEN <<>> ELSE <<names[n].str>> \o NameTexts(names[n].next)

\* parse() has returned with the error string empty.
Succeeded == pc \in {"parsed", "written"} /\ crash = "" /\ error = NoError
\* The first call of str() has returned.
Written == pc = "written" /\ strCalls = 1
\* The symbol begins with the bytes lit.
Begins(lit) == Len(lit) <= Len(src) /\ SubSeq(src, 1, Len(lit)) = lit
\* The symbol ends with the bytes lit.
Ends(lit) ==
  Len(lit) <= Len(src)
    /\ SubSeq(src, (Len(src) - Len(lit)) + 1, Len(src)) = lit

\* C1: for every primitive code P and every identifier id of letters, parsing
\* `?' id `@@3' P `A' succeeds and str() returns keyword(P), one space, id
\* (G is unsigned short, K is unsigned long).
C1_PrimitiveVariable ==
  (pc # "constructed" /\ Len(src) <= MaxIdLen + 7 /\ Ends(<<"A">>)) =>
    \A id \in Ids, P \in PrimCodes :
      src = VarSymbol(id, P) =>
        /\ Succeeded
        /\ Written => result = SpecKeyword(P) \o <<" ">> \o id

\* C1 happens: `?x@@3GA' has been written as `unsigned short x'.
C1_Witness ==
  /\ Written
  /\ src = VarSymbol(<<"x">>, <<"G">>)
  /\ result = <<"u", "n", "s", "i", "g", "n", "e", "d", " ", "s", "h", "o", "r", "t", " ", "x">>

C3_PointerSpacing ==
  Written =>
    /\ src = PtrSymbol("P", "A", <<"H">>) => result = <<"i", "n", "t", " ", "*", "x">>
    /\ src = PtrSymbol("P", "B", <<"H">>) =>
         result = <<"i", "n", "t", " ", "c", "o", "n", "s", "t", " ", "*", "x">>

\* What str() returns for the two symbols of C3: no space before the `*'.
C3_Observed ==
  /\ Written
  /\ \/ src = PtrSymbol("P", "A", <<"H">>) /\ result = <<"i", "n", "t", "*", "x">>
     \/ /\ src = PtrSymbol("P", "B", <<"H">>)
        /\ result = <<"i", "n", "t", " ", "c", "o", "n", "s", "t", "*", "x">>

\* The text C4 gives the function id of return code R and parameter codes ps.
SpecFunction(id, R, ps) ==
  SpecKeyword(R) \o <<" ">> \o id \o <<"(">>
    \o JoinWith([i \in 1..Len(ps) |-> SpecKeyword(ps[i])], <<",">>) \o <<")">>

Unmangled == src = <<>> \/ src[1] # "?"

\* C5: for every input that is empty or does not start with `?', parse()
\* returns with the error string empty, the root Type Unknown and the symbol
\* one Name whose text is the whole input; nothing of the input is parsed.
C5_UnmangledInput ==
  (Unmangled /\ pc # "constructed") =>
    /\ Succeeded
    /\ types[Root].prim = "Unknown"
    /\ NameTexts(symbol) = <<src>>
    /\ pos = 0

\* What parse() leaves of `@3H': the input parsed as a variable of type int
\* without a name.
C5_Observed ==
  /\ src = <<"@", "3", "H">>
  /\ Succeeded
  /\ types[Root].prim = "Int"
  /\ symbol = NullPtr
  /\ pos = 3

\* C6: for every input s that does not start with `?', parse() followed by
\* str() returns s byte for byte.
C6_RoundTrip == (Unmangled /\ Written) => result = src

\* What str() returns for `@3H'.
C6_Observed ==
  /\ src = <<"@", "3", "H">>
  /\ Written
  /\ result = <<"i", "n", "t">>

\* C7: parse() terminates on every input: once called it returns, with the
\* error string empty or set, and no loop of read_name, read_params or
\* read_array runs on.  A loop that has not ended when the arena has handed
\* out ArenaCap nodes leaves crash = "arena" (a run the build stops at a
\* store through nullptr is not held against the loops).
C7_ParseTerminates ==
  pc # "constructed" => (pc \in {"parsed", "written"} \/ crash = "null")

\* What parse() does on `?x': read_name allocates one Name per turn of its
\* loop, the cursor never moves, and the arena runs out.
C7_Observed ==
  /\ src = <<"?", "x">>
  /\ pc = "halted"
  /\ crash = "arena"
  /\ Len(names) = ArenaCap
  /\ pos = 1

\* The digits of a parameter list.
DigitToks == {<<Digits[i]>> : i \in 1..10}

\* The parameter tokens ts from token i on with the back-references spelled
\* out, given the tokens memo memoized so far and the tokens out read so far:
\* a token of more than one byte is memoized while the table has fewer than
\* ten entries.  The list ends <<"!">> at a digit that is out of range.
RECURSIVE ExpandFrom(_, _, _, _)
ExpandFrom(ts, i, memo, out) ==
  IF i > Len(ts) THEN out
  ELSE IF ts[i] \in DigitToks
    THEN IF DigitVal(ts[i][1]) < Len(memo)
         THEN ExpandFrom(ts, i + 1, memo,
                         Append(out, memo[DigitVal(ts[i][1]) + 1]))
         ELSE Append(out, <<"!">>)
  ELSE IF Len(ts[i]) > 1 /\ Len(memo) < 10
    THEN ExpandFrom(ts, i + 1, Append(memo, ts[i]), Append(out, ts[i]))
  ELSE ExpandFrom(ts, i + 1, memo, Append(out, ts[i]))

Expand(ts) == ExpandFrom(ts, 1, <<>>, <<>>)
\* ts holds a back-reference, and all of them are in range.
ValidRefs(ts) ==
  /\ \E i \in 1..Len(ts) : ts[i] \in DigitToks
  /\ \A i \in 1..Len(Expand(ts)) : Expand(ts)[i] # <<"!">>

\* The Type at address a of the heap h, without its addresses: variant,
\* qualifiers and children.
RECURSIVE Shape(_, _)
Shape(h, a) ==
  [prim |-> h[a].prim, sclass |-> h[a].sclass,
   ptr |-> IF h[a].ptr = NullPtr THEN <<>> ELSE <<Shape(h, h[a].ptr)>>]

\* The shapes of the list at address p of the heap h, following next.
RECURSIVE ShapeList(_, _)
ShapeList(h, p) ==
  IF p = NullPtr THEN <<>> ELSE <<Shape(h, p)>> \o ShapeList(h, h[p].next)

\* The shapes of the parameters of the function d has parsed.
ParamShapes(d) == ShapeList(d.types, d.types[Root].params)

\* `?f@@YAH' ts `@Z'
RefSymbol(ts) == FuncSymbol(<<"f">>, "A", <<"H">>, ts, <<"@", "Z">>)

\* C8: when read_params meets a digit n smaller than the number of types
\* memoized so far, the list has one entry per token, in token order, the
\* entry at the digit being a copy of memoized entry n and the entries
\* around it kept: the list reads as the list of the same symbol with its
\* back-references spelled out.
C8_BackrefDuplicates ==
  \A ts \in TokLists :
    (pc # "constructed" /\ src = RefSymbol(ts) /\ ValidRefs(ts)) =>
      /\ Succeeded
      /\ Len(ParamShapes(Self)) = Len(ts)
      /\ ParamShapes(Self)
           = ParamShapes(parse(Demangler(RefSymbol(Expand(ts)), ub)))

\* What parse() leaves of `?f@@YAHPEAHH0@Z': two parameters, int* and int.
C8_Observed ==
  /\ src = RefSymbol(<<<<"P", "E", "A", "H">>, <<"H">>, <<"0">>>>)
  /\ Written
  /\ Len(ParamShapes(Self)) = 2
  /\ ParamShapes(Self)[2].prim = "Int"
  /\ result =
       <<"i", "n", "t", " ", "f", "(", "i", "n", "t", "*", ",", "i", "n", "t", ")">>

\* C9: read_params memoizes a parameter only if parsing it consumed more than
\* one byte (and the table has fewer than 10 entries): a parameter of one
\* byte is never memoized, and a digit that follows only parameters of one
\* byte is an invalid back-reference.
C9_MultiByteOnly ==
  /\ \A i \in 1..Len(log) :
       log[i].op = "memo_param" => Len(log[i].val) > 1 /\ log[i].idx < 10
  /\ \A k \in 1..MaxDistinct, j \in 0..9 :
       (pc # "constructed" /\ src = ParamRefSymbol(<<"H">>, k, j)) =>
         /\ pc = "parsed"
         /\ error.msg = "invalid backreference: "

\* What parse() does on `?f@@YAHHH0@Z': both int are memoized, the digit is
\* taken for a back-reference and no error is set.
C9_Observed ==
  /\ src = ParamRefSymbol(<<"H">>, 2, 0)
  /\ Succeeded
  /\ \E i \in 1..Len(log) : log[i].op = "memo_param" /\ log[i].val = <<"H">>
  /\ \E i \in 1..Len(log) : log[i].op = "backref" /\ log[i].idx = 0

\* The events of the log that are op, in order.
RECURSIVE EventsFrom(_, _)
EventsFrom(op, i) ==
  IF i > Len(log) THEN <<>>
  ELSE IF log[i].op = op THEN <<log[i]>> \o EventsFrom(op, i + 1)
  ELSE EventsFrom(op, i + 1)
Events(op) == EventsFrom(op, 1)

\* The name table is what the appends ev made it, each at the end.
AppendedInOrder(ev) ==
  /\ Len(ev) = Len(repeated_names)
  /\ \A k \in 1..Len(ev) : ev[k].idx = k - 1 /\ ev[k].val = repeated_names[k]

\* C10: the name table has at most 10 entries and the index of the parameter
\* table is at most 10; entries are appended at the end and never removed or
\* reordered; every read of either table uses an index i with
\* 0 <= i < current size, and an out-of-range digit sets the error instead
\* of reading.
C10_TablesBounded ==
  /\ Len(repeated_names) <= 10
  /\ AppendedInOrder(Events("memorize"))
  /\ \A i \in 1..Len(log) :
       /\ log[i].op = "memo_param" => log[i].size <= 10
       /\ log[i].op \in {"name_ref", "backref"} =>
            0 <= log[i].idx /\ log[i].idx < log[i].size /\ log[i].size <= 10
       /\ log[i].op = "name_ref" =>
            log[i].val = repeated_names[log[i].idx + 1]
  /\ (pc # "constructed" /\ Begins(<<"?", "x", "@">>)) =>
       \A j \in 0..9 : \A k \in 0..(j - 1) :
         src = NameRefSymbol(k, j) =>
           /\ error # NoError
           /\ Events("name_ref") = <<>>
  /\ (pc # "constructed" /\ Begins(<<"?", "f", "@", "@", "Y", "A", "H">>)) =>
       \A j \in 0..9 : \A k \in 0..j :
         src = ParamRefSymbol(<<"P", "E", "A", "H">>, k, j) =>
           /\ error.msg = "invalid backreference: "
           /\ Events("backref") = <<>>

\* C10 happens: eleven names have been read, the table holds the first ten
\* and its last entry has been read by a back-reference.
C10_Witness ==
  /\ src = NameRefSymbol(MaxDistinct, 9)
  /\ Succeeded
  /\ Len(repeated_names) = 10
  /\ \E i \in 1..Len(log) :
       log[i].op = "name_ref" /\ log[i].idx = 9 /\ log[i].size = 10

\* The assignments to error that parse() made, in order.
ErrorEvents == Events("error")

\* The error string is what the assignments ev made it: each gave it a
\* non-empty text, each but the first found it non-empty, and it holds the
\* text of the last one (it is empty if there was none).
LatchedBy(ev) ==
  /\ \A i \in 1..Len(ev) : ev[i].val[1] # ""
  /\ \A i \in 2..Len(ev) : ev[i].val[2] # ""
  /\ (error = NoError) <=> (ev = <<>>)
  /\ error # NoError => error.msg = ev[Len(ev)].val[1]

\* C11: the error string is latched: every assignment to it during parse()
\* gives it a non-empty text and none empties it again, so that after parse()
\* it is empty if and only if no helper detected a failure, and otherwise it
\* holds the text of the last assignment.
C11_ErrorLatched == pc # "constructed" => LatchedBy(ErrorEvents)

\* C11 happens: `?f@C@@QAAAHXZ' lacks the marker, expect set the error, four
\* more helpers ran and consumed bytes, and parse() returned with it set.
C11_Witness ==
  /\ src = MemberSymbol("Q", "A", "A", <<"H">>)
  /\ pc = "parsed"
  /\ Len(ErrorEvents) = 1
  /\ ErrorEvents[1].val[1] = " expected, but got "
  /\ pos > ErrorEvents[1].idx
  /\ error.msg = " expected, but got "

\* C12: after the first error of a parse() the remaining helpers are no-ops:
\* none advances the cursor, allocates a node or assigns the error again, so
\* parse() returns with the cursor, the arena and the message of the first
\* failure; a name back-reference that is too large is reported as `name
\* reference too large'.
C12_FirstErrorFinal ==
  /\ (pc = "parsed" /\ ErrorEvents # <<>>) =>
       /\ Len(ErrorEvents) = 1
       /\ pos = ErrorEvents[1].idx
       /\ ArenaUsed(Self) = ErrorEvents[1].size
       /\ error.msg = ErrorEvents[1].val[1]
  /\ \A j \in 0..9 : \A k \in 0..(j - 1) :
       (pc # "constructed" /\ src = NameRefSymbol(k, j)) =>
         error.msg = "name reference too large: "

\* What parse() does on `?x@1@3HA': read_name reports the reference, then
\* the member-function branch runs: four more helpers assign the error, a
\* Type is allocated and read_prim_type consumes a byte.
C12_Observed ==
  /\ src = NameRefSymbol(0, 1)
  /\ pc = "parsed"
  /\ Len(ErrorEvents) = 5
  /\ ErrorEvents[1].val[1] = "name reference too large: "
  /\ error.msg = "unknown primitive type: "
  /\ pos = ErrorEvents[1].idx + 1
  /\ ArenaUsed(Self) = ErrorEvents[1].size + 1

\* The separator the specification puts between the two S of a structor.
SpecStructorSep(tag) ==
  IF tag = <<"?", "0">> THEN <<":", ":">> ELSE <<":", ":", "~">>

RECURSIVE ParenDepth(_, _, _)
ParenDepth(s, i, n) ==
  IF n < 0 THEN -1
  ELSE IF i > Len(s) THEN n
  ELSE ParenDepth(s, i + 1,
                  IF s[i] = "(" THEN n + 1
                  ELSE IF s[i] = ")" THEN n - 1 ELSE n)
\* Every `(' of s has a matching later `)' and every `)' an earlier `('.
Balanced(s) == ParenDepth(s, 1, 0) = 0

\* C14: the writer emits `(' in write_pre and the matching `)' in write_post
\* for a Pointer/Reference whose pointee is a Function or an Array, and the
\* parentheses of parameter lists besides: in the text str() returns every
\* `(' has a matching later `)'.
C14_Parenthesization == Written => Balanced(result)

\* What str() returns for `?f@@YAP6AHH@Z@Z', a function that returns a
\* pointer to a function: the `(' of the return type is never closed.
C14_Observed ==
  /\ src = FuncOf(<<"P", "6", "A", "H", "H", "@", "Z">>, <<>>)
  /\ Written
  /\ result = <<"i", "n", "t", "(", "*", "f", "(", ")">>
  /\ ~Balanced(result)

\* C15: `?f@@3P6AHH@ZEA' is written `int (*f)(int)' and `?a@@3PEAY09HEA' is
\* written `int (*a)[10]'.
C15_DeclaratorText ==
  Written =>
    /\ src = VarOf(<<"f">>, <<"P", "6", "A", "H", "H", "@", "Z">>) =>
         result = <<"i", "n", "t", " ", "(", "*", "f", ")", "(", "i", "n", "t", ")">>
    /\ src = VarOf(<<"a">>, <<"P", "E", "A", "Y", "0", "9", "H">>) =>
         result = <<"i", "n", "t", " ", "(", "*", "a", ")", "[", "1", "0", "]">>

\* What str() returns for the two symbols of C15: no space before the `('.
C15_Observed ==
  /\ Written
  /\ \/ /\ src = VarOf(<<"f">>, <<"P", "6", "A", "H", "H", "@", "Z">>)
        /\ result = <<"i", "n", "t", "(", "*", "f", ")", "(", "i", "n", "t", ")">>
     \/ /\ src = VarOf(<<"a">>, <<"P", "E", "A", "Y", "0", "9", "H">>)
        /\ result = <<"i", "n", "t", "(", "*", "a", ")", "[", "1", "0", "]">>

Punctuation == {"*", "&", "(", ")", "[", ",", "<", ">", ":"}

\* C16: for every input on which parse() succeeds, the text str() returns has
\* no two spaces in a row and no space right before a punctuation character
\* (`*', `&', `(', `)', `[', `,', `<', `>', `:'), also when an aggregate type
\* has an empty name sequence.
C16_Spacing ==
  Written =>
    \A i \in 1..(Len(result) - 1) :
      result[i] = " " => result[i + 1] \notin ({" "} \cup Punctuation)

\* What str() returns for `?a@@3PEAV@EA', a pointer to a class with an empty
\* name sequence: `class *a', a space before the `*'.
C16_Observed ==
  /\ src = VarOf(<<"a">>, <<"P", "E", "A", "V", "@">>)
  /\ Written
  /\ result = <<"c", "l", "a", "s", "s", " ", "*", "a">>

\* The nodes of the AST, Types and Names, by address.
TypeNode(a) == <<"Type", a>>
NameNode(n) == <<"Name", n>>
Nodes ==
  {TypeNode(a) : a \in 1..Len(types)} \cup {NameNode(n) : n \in 1..Len(names)}
\* The nodes the node x points at: ptr, params, next and name of a Type,
\* params and next of a Name.
Edges(x) ==
  IF x[1] = "Type"
  THEN {TypeNode(a) : a \in {types[x[2]].ptr, types[x[2]].params,
                             types[x[2]].next} \ {NullPtr}}
         \cup {NameNode(n) : n \in {types[x[2]].name} \ {NullPtr}}
  ELSE {TypeNode(a) : a \in {names[x[2]].params} \ {NullPtr}}
         \cup {NameNode(n) : n \in {names[x[2]].next} \ {NullPtr}}
\* The nodes that can be reached from the nodes S.
RECURSIVE ReachableFrom(_)
ReachableFrom(S) ==
  Bind(UNION {Edges(x) : x \in S}, LAMBDA N :
    IF N \subseteq S THEN S ELSE ReachableFrom(S \cup N))
\* The nodes str() can come to: from Demangler::type and from the symbol.
Reachable ==
  ReachableFrom({TypeNode(Root)}
                  \cup {NameNode(n) : n \in {symbol} \ {NullPtr}})

\* C17: when parse() returns with the error string empty, every Type that can
\* be reached from the root has its variant assigned, every Pointer,
\* Reference and Array among them has a non-null child and every Function a
\* non-null return type.
C17_ChildrenPresent ==
  Succeeded =>
    \A x \in Reachable :
      x[1] = "Type" =>
        /\ types[x[2]].prim # Uninit
        /\ types[x[2]].prim \in {"Ptr", "Ref", "Array", "Function"} =>
             types[x[2]].ptr # NullPtr

\* C17 happens: `?f@@YAPEAY09HP6AHH@Z@Z' has been parsed into a Function
\* whose return type is a Pointer to an Array of int and whose parameter is
\* a Pointer to a Function.
C17_Witness ==
  /\ src = FuncOf(<<"P", "E", "A", "Y", "0", "9", "H">>, <<<<"P", "6", "A", "H", "H", "@", "Z">>>>)
  /\ Succeeded
  /\ types[Root].prim = "Function"
  /\ types[types[Root].ptr].prim = "Ptr"
  /\ types[types[types[Root].ptr].ptr].prim = "Array"
  /\ types[types[types[types[Root].ptr].ptr].ptr].prim = "Int"
  /\ types[types[Root].params].prim = "Ptr"
  /\ types[types[types[Root].params].ptr].prim = "Function"
  /\ types[types[types[types[Root].params].ptr].ptr].prim = "Int"

\* What is left of the nodes S when the nodes without an edge into S are
\* taken away, again and again: the nodes from which a cycle can be reached.
RECURSIVE Strip(_)
Strip(S) ==
  Bind({x \in S : Edges(x) \cap S # {}}, LAMBDA R :
    IF R = S THEN S ELSE Strip(R))
Acyclic == Strip(Nodes) = {}

SpecNumber(code) ==
  CASE code = <<"0">> -> 1
    [] code = <<"9">> -> 10
    [] code = <<"B", "A", "@">> -> 16
    [] code = <<"A", "@">> -> 0
SpecNumberText(code) ==
  CASE code = <<"0">> -> <<"1">>
    [] code = <<"9">> -> <<"1", "0">>
    [] code = <<"B", "A", "@">> -> <<"1", "6">>
    [] code = <<"A", "@">> -> <<"0">>

\* The lengths of the chain of Array nodes that starts at address a.
RECURSIVE ArrayLens(_)
ArrayLens(a) ==
  IF types[a].prim = "Array" THEN <<types[a].len>> \o ArrayLens(types[a].ptr)
  ELSE <<>>
\* The address of the first node of that chain that is not an Array.
RECURSIVE ArrayElem(_)
ArrayElem(a) ==
  IF types[a].prim = "Array" THEN ArrayElem(types[a].ptr) ELSE a

RECURSIVE SpecHexRun(_, _)
SpecHexRun(b, i) ==
  IF i <= Len(b) /\ IsHexLetter(b[i]) THEN SpecHexRun(b, i + 1) ELSE i - 1
\* The base-16 value of the first k bytes of b, most significant first.
RECURSIVE SpecHexValue(_, _)
SpecHexValue(b, k) ==
  IF k = 0 THEN 0 ELSE (SpecHexValue(b, k - 1) * 16) + HexVal(b[k])
\* The bytes b without the optional `?'.
SpecDigits(b) == IF b # <<>> /\ b[1] = "?" THEN Tail(b) ELSE b
\* b is one of the two forms: a decimal digit, or one or more letters and `@'.
SpecIsDigitForm(b) == b # <<>> /\ IsDigit(b[1])
SpecIsHexForm(b) ==
  /\ SpecHexRun(b, 1) >= 1
  /\ SpecHexRun(b, 1) < Len(b)
  /\ b[SpecHexRun(b, 1) + 1] = "@"
SpecIsNumber(b) == SpecIsDigitForm(SpecDigits(b)) \/ SpecIsHexForm(SpecDigits(b))
\* The value of the form b, 0 if it is none.
SpecMagnitude(b) ==
  IF SpecIsDigitForm(b) THEN DigitVal(b[1]) + 1
  ELSE IF SpecIsHexForm(b) THEN SpecHexValue(b, SpecHexRun(b, 1))
  ELSE 0
SpecNumberAt(b) ==
  IF SpecDigits(b) # b THEN 0 - SpecMagnitude(SpecDigits(b))
  ELSE SpecMagnitude(b)
\* The return of read_number logged at index i came with `bad number'.
BadNumber(i) ==
  i > 1 /\ log[i - 1].op = "error" /\ log[i - 1].val[1] = "bad number"

\* C21: every call of read_number returns the value of the form at the
\* cursor (a digit d gives d + 1, letters A..P ended by `@' give their
\* base-16 value, negated after `?'), and sets `bad number' and returns 0
\* exactly when the bytes at the cursor are neither form: a lone `@' and a
\* run that no `@' follows are bad numbers.
C21_NumberForms ==
  \A i \in 1..Len(log) :
    log[i].op = "number" =>
      /\ log[i].size = SpecNumberAt(SubSeq(src, log[i].idx + 1, Len(src)))
      /\ BadNumber(i) <=> ~SpecIsNumber(SubSeq(src, log[i].idx + 1, Len(src)))

\* What the program does on `?a@@3Y0@HA': read_number takes the lone `@' as
\* the number 0 without an error, and str() writes `int a[0]'.
C21_Observed ==
  /\ src = ArraySymbol(<<"0">>, <<<<"@">>>>, <<"H">>)
  /\ Written
  /\ \E i \in 1..Len(log) :
       /\ log[i].op = "number" /\ log[i].val = <<"@">> /\ log[i].size = 0
       /\ ~BadNumber(i)
  /\ result = <<"i", "n", "t", " ", "a", "[", "0", "]">>

\* The first (at most 10) distinct texts of ss in order of first appearance,
\* after those of t.
RECURSIVE FirstDistinct(_, _)
FirstDistinct(ss, t) ==
  IF ss = <<>> THEN t
  ELSE FirstDistinct(Tail(ss),
                     IF Len(t) < 10 /\ \A k \in 1..Len(t) : t[k] # Head(ss)
                     THEN Append(t, Head(ss)) ELSE t)
\* The identifiers of the events ev.
Texts(ev) == [k \in 1..Len(ev) |-> ev[k].val]
\* The names x, a, b, ... of NameRefSymbol(k, j).
SpecRefNames(k) == <<<<"x">>>> \o [i \in 1..k |-> <<DistinctNames[i]>>]
\* The class names that the template argument arg holds.
SpecArgNames(arg) ==
  IF Len(arg) = 1 THEN <<>> ELSE <<SubSeq(arg, 2, Len(arg) - 2)>>

\* C22: read_name appends a plain identifier to the name table if and only
\* if the table has fewer than 10 entries and holds no equal string; the
\* identifier of a template name and a name given by a back-reference digit
\* leave the table as it is; so the table is the first (at most 10) distinct
\* plain identifiers in order of first appearance.
C22_NameMemoization ==
  /\ \A i \in 1..Len(log) :
       /\ log[i].op = "read_tmpl" => log[i].size = log[i].idx
       /\ log[i].op = "read_plain" =>
            log[i].size = IF log[i].idx < 10
                               /\ \A k \in 1..log[i].idx :
                                    repeated_names[k] # log[i].val
                            THEN log[i].idx + 1 ELSE log[i].idx
  /\ pc # "constructed" =>
       repeated_names = FirstDistinct(Texts(Events("read_plain")), <<>>)
  /\ (pc # "constructed" /\ Ends(<<"@", "3", "H", "A">>)) =>
       /\ \A ns \in NameSeqs :
            src = QualSymbol(ns) => repeated_names = FirstDistinct(ns, <<>>)
       /\ \A j \in 0..9 : \A k \in j..MaxDistinct :
            src = NameRefSymbol(k, j) =>
              repeated_names = FirstDistinct(SpecRefNames(k), <<>>)
       /\ \A n1 \in NameAtoms, T \in NameAtoms, n2 \in NameAtoms :
            \A arg \in TmplArgs :
              src = TmplSymbol(n1, T, arg, n2) =>
                repeated_names =
                  FirstDistinct(<<n1>> \o SpecArgNames(arg) \o <<n2>>, <<>>)

\* C22 happens: `?x@?$ns@H@x@@3HA' has been parsed: the table holds x once,
\* the template identifier ns was read and is not in it.
C22_Witness ==
  /\ src = TmplSymbol(<<"x">>, <<"n", "s">>, <<"H">>, <<"x">>)
  /\ Succeeded
  /\ Texts(Events("read_plain")) = <<<<"x">>, <<"x">>>>
  /\ Texts(Events("read_tmpl")) = <<<<"n", "s">>>>
  /\ repeated_names = <<<<"x">>>>

\* The starts of array tokens in the log, in order.
ArrayTokens == Events("array")
\* Types that read_array has made an Array.
ArrayNodes == {a \in 1..Len(types) : types[a].prim = "Array"}

\* C23: while one array token is parsed, the Array nodes made and the calls
\* of read_number that have returned never exceed the bytes of input that
\* remained when the token started, whatever its dimension.
C23_ArrayWorkBounded ==
  Len(ArrayTokens) = 1 =>
    /\ Cardinality(ArrayNodes) <= ArrayTokens[1].size
    /\ Len(Events("number")) <= ArrayTokens[1].size

\* What parse() does on `?a@@3Y9HA': four bytes remain at `Y', the dimension
\* is 10, and the loop makes 10 Array nodes and calls read_number 10 times,
\* each call failing at the same two bytes.
C23_Observed ==
  /\ src = ArraySymbol(<<"9">>, <<>>, <<"H">>)
  /\ pc = "parsed"
  /\ Len(ArrayTokens) = 1
  /\ ArrayTokens[1].size = 4
  /\ Cardinality(ArrayNodes) = 10
  /\ Len(Events("number")) = 11
  /\ error.msg = "bad number"

\* C24: read_params never stores or reads through a null Type pointer: a
\* valid back-reference digit right after the parameter it refers to (the
\* entry is the tail of the list) is handled without touching a null next.
C24_NoNullAccess == Events("null_store") = <<>> /\ crash # "null"

\* What parse() does on `?f@@YAHPEAH0@Z': the copy of the tail has a null
\* next, tp is moved to it and `(*tp)->next = nullptr' stores through null;
\* this build traps.
C24_Observed ==
  /\ src = FuncSymbol(<<"f">>, "A", <<"H">>, <<<<"P", "E", "A", "H">>, <<"0">>>>,
                      <<"@", "Z">>)
  /\ ub = "trap"
  /\ pc = "halted"
  /\ crash = "null"
  /\ Len(Events("backref")) = 1
  /\ Len(Events("null_store")) = 1
  /\ Events("null_store")[1].size = 12

\* The byte ranges p and q have no byte in common.
Disjoint(p, q) ==
  \/ p.page # q.page
  \/ p.off + p.size <= q.off
  \/ q.off + q.size <= p.off

\* C25: the byte range that a call of Arena::alloc(size), size < 4096,
\* returns is disjoint from the ranges that all earlier calls returned, the
\* two calls right after a new page is started included.
C25_AllocDisjoint ==
  \A j \in 1..Len(allocs) : \A i \in 1..(j - 1) : Disjoint(allocs[i], allocs[j])

\* What Arena::alloc does when a page is full: alloc(4095) is served from
\* init_buf, the next alloc(sizeof(Type)) starts page 1, leaves nused = 0
\* and returns its first byte, and the call after it returns that byte again.
C25_Observed ==
  /\ Len(allocs) = 3
  /\ allocs[1] = [page |-> 0, off |-> 0, size |-> 4095]
  /\ allocs[2] = [page |-> 1, off |-> 0, size |-> SizeofType]
  /\ allocs[3] = [page |-> 1, off |-> 0, size |-> SizeofName]
  /\ arena = [buf |-> 1, nused |-> SizeofName, buf2 |-> 1]

\* C26: in a member-function symbol the return type is the type encoded
\* right after the calling-convention byte: for a primitive code R in C..H
\* (`H' in `?f@C@@QEBAHXZ') the return type is that primitive and the bytes
\* after it are the parameter list, here [Void]; the byte R is not taken as
\* a storage-class byte.
C26_MemberReturnType ==
  (pc # "constructed" /\ Begins(<<"?", "f", "@", "C", "@", "@">>)
                      /\ Ends(<<"X", "Z">>)) =>
    \A cls \in FuncClassCodes, acc \in {"A", "B"}, R \in MemberReturns :
      src = MemberSymbol(cls, "E", acc, R) =>
        /\ Succeeded
        /\ types[types[Root].ptr].prim \in Primitives
        /\ Keyword(types[types[Root].ptr].prim) = SpecKeyword(R)
        /\ types[types[Root].ptr].sclass = {}
        /\ types[Root].params # NullPtr
        /\ types[types[Root].params].prim = "Void"
        /\ types[types[Root].params].next = NullPtr

\* What the program does on `?f@C@@QEBAHXZ': read_storage_class takes `H' as
\* const volatile far, the return type is read from `X' and the parameter
\* list from `Z'; str() writes `void const C::f()const'.
C26_Observed ==
  /\ src = MemberSymbol("Q", "E", "B", <<"H">>)
  /\ Written
  /\ types[types[Root].ptr].prim = "Void"
  /\ types[types[Root].ptr].sclass = {Const, Volatile, Far}
  /\ types[Root].params = NullPtr
  /\ result = <<"v", "o", "i", "d", " ", "c", "o", "n", "s", "t", " ", "C", ":",
                ":", "f", "(", ")", "c", "o", "n", "s", "t">>

\* parse() on a Demangler constructed on the first k bytes of the symbol.
PrefixRun(k) == parse(Demangler(SubSeq(src, 1, k), ub))
\* parse() returned on d with the error string empty.
SucceededOn(d) == d.crash = "" /\ d.error = NoError
\* The symbol is the bytes s of the run r, and bytes after them: parse() has
\* succeeded on it, and str() returns what it returns for s.
SameAs(r) ==
  /\ Succeeded
  /\ Written => result = str(r, <<>>)
\* parse() has not succeeded, or the first call of str() has returned.
Settled == (pc # "constructed" /\ ~Succeeded) \/ Written
\* The lengths of the prefixes s that leave a tail t of 1..MaxTail bytes.
Splits ==
  (IF Len(src) > MaxTail THEN Len(src) - MaxTail ELSE 0)..(Len(src) - 1)

\* C27 as claimed: trailing bytes are ignored: if parse() succeeds on s,
\* then for every byte string t it succeeds on s followed by t, and str()
\* returns the same string.
C27_TrailingIgnored ==
  Settled =>
    \A k \in Splits :
      Bind(PrefixRun(k), LAMBDA r : SucceededOn(r) => SameAs(r))

\* What the program does on `?f@@YAHP6AHH@' followed by `ZH@': the symbol
\* alone is int f(int(*)(int)); with the tail, the `@' that ended the list
\* of the function pointer and the `Z' after it are its terminator, and the
\* list of f goes on with the int of the tail.
C27_Observed ==
  /\ src = <<"?", "f", "@", "@", "Y", "A", "H", "P", "6", "A", "H", "H", "@",
             "Z", "H", "@">>
  /\ Written
  /\ SucceededOn(PrefixRun(13))
  /\ str(PrefixRun(13), <<>>) =
       <<"i", "n", "t", " ", "f", "(", "i", "n", "t", "(", "*", ")", "(", "i",
         "n", "t", ")", ")">>
  /\ result =
       <<"i", "n", "t", " ", "f", "(", "i", "n", "t", "(", "*", ")", "(", "i",
         "n", "t", ")", ",", "i", "n", "t", ")">>

\* C27, amended: if parse() succeeds on s, then for every byte string t that
\* does not begin with `Z' it succeeds on s followed by t, and str() returns
\* the same string; the cursor need not be empty after a success.
C27_TrailingIgnoredUnlessZ ==
  Settled =>
    \A k \in Splits :
      src[k + 1] # "Z" =>
        Bind(PrefixRun(k), LAMBDA r : SucceededOn(r) => SameAs(r))

\* C27 happens: `?f@@YAHP6AHH@' followed by `@H' has been written as the
\* symbol alone is, with three bytes left at the cursor.
C27_Witness ==
  /\ src = <<"?", "f", "@", "@", "Y", "A", "H", "P", "6", "A", "H", "H", "@",
             "@", "H">>
  /\ Written
  /\ SucceededOn(PrefixRun(13))
  /\ pos = 12
  /\ result = str(PrefixRun(13), <<>>)
  /\ result =
       <<"i", "n", "t", " ", "f", "(", "i", "n", "t", "(", "*", ")", "(", "i",
         "n", "t", ")", ")">>

\* C28: str() is repeatable and leaves the parse result as it is: a call of
\* str() that follows another returns the string that one returned, and no
\* call of str() changes the AST, the cursor or the back-reference tables.
C28_StrRepeatable ==
  [][strCalls' = strCalls + 1 =>
       /\ UNCHANGED <<types, names, symbol, pos, repeated_names>>
       /\ strCalls >= 1 => result' = result]_vars

\* What the program does on `?x@@3HA': the stream os keeps the text of the
\* first call, and the second call of str() returns `int xint x'.
C28_Observed ==
  /\ src = VarSymbol(<<"x">>, <<"H">>)
  /\ strCalls = 2
  /\ result = <<"i", "n", "t", " ", "x", "i", "n", "t", " ", "x">>

\* The keyword the specification gives the aggregate code kw.
SpecAggregate(kw) ==
  CASE kw = <<"T">> -> <<"u", "n", "i", "o", "n">>
    [] kw = <<"U">> -> <<"s", "t", "r", "u", "c", "t">>
    [] kw = <<"V">> -> <<"c", "l", "a", "s", "s">>
    [] kw = <<"W", "4">> -> <<"e", "n", "u", "m">>
\* The text begins with head, then at least one space, and ends with id.
Separates(text, head, id) ==
  /\ Len(text) > Len(head) + Len(id)
  /\ SubSeq(text, 1, Len(head)) = head
  /\ text[Len(head) + 1] = " "
  /\ SubSeq(text, (Len(text) - Len(id)) + 1, Len(text)) = id

\* C29: in the declaration of a variable of a struct, union, class or enum
\* type, the last identifier of the type's name and the first identifier of
\* the symbol are separated by at least one space, also when the type's name
\* ends in a digit, an underscore or the `>' of a template list.
C29_NameSeparated ==
  (Written /\ Ends(<<"@", "@", "E", "A">>)) =>
    \A id \in DeclIds, kw \in AggrCodes, nm \in AggrNames :
      src = AggrVar(id, kw, nm) =>
        Separates(result, SpecAggregate(kw) \o <<" ">> \o nm.text, id)

\* What the program does on `?a@@3VC1@@EA': the type's name ends in a digit,
\* write_space writes nothing and str() returns `class C1a'.
C29_Observed ==
  /\ src = AggrVar(<<"a">>, <<"V">>,
                   [code |-> <<"C", "1", "@">>, text |-> <<"C", "1">>])
  /\ Written
  /\ result = <<"c", "l", "a", "s", "s", " ", "C", "1", "a">>

\* C30: every trim(n) of the parser has n <= remaining length, every unget
\* that moves the cursor puts back the byte that a get has just taken from
\* there (an unget of -1 is a no-op), and the cursor stays within the input.
C30_CursorBounds ==
  /\ 0 <= pos /\ pos <= Len(src)
  /\ \A i \in 1..Len(log) :
       /\ log[i].op = "trim" => log[i].idx <= log[i].size
       /\ log[i].op = "unget" =>
            /\ 1 <= log[i].size /\ log[i].size <= Len(src)
            /\ log[i].val = <<src[log[i].size]>>

\* C30 happens: on `?f@@YAHP6AHH@ZH' the `@Z' has been trimmed with three
\* bytes left, bytes have been put back, and the last get found the input
\* empty: its unget of -1 moved nothing and the cursor stands at the end.
C30_Witness ==
  /\ src = <<"?", "f", "@", "@", "Y", "A", "H", "P", "6", "A", "H", "H", "@",
             "Z", "H">>
  /\ pc = "parsed"
  /\ pos = Len(src)
  /\ error.msg = "unknown primitive type: "
  /\ \E i \in 1..Len(log) :
       log[i].op = "trim" /\ log[i].idx = 2 /\ log[i].size = 3
  /\ Len(Events("unget")) = 4

====
